---- MODULE Spec2Model ----
(***************************************************************************)
(* Verification model of burn-bench's orchestration substrate:             *)
(*   - runner/dependency.rs : version classification, manifest patching    *)
(*   - runner/base.rs       : the matrix driver and run_cargo              *)
(*   - runner/processor.rs  : the process supervisor (CargoRunner)         *)
(*   - runner/processor.rs  : NiceProcessor and its progress bar           *)
(*   - runner/reports.rs    : BenchmarkCollection, its loading and table   *)
(*   - benchmark.rs         : the timing engine (Benchmark::run)           *)
(* Text is modelled as TLA+ strings, manipulated character by character.   *)
(***************************************************************************)
EXTENDS Integers, Sequences, FiniteSets, TLC

VARIABLES
    version,      \* classify: the free-form version string handed to Dependency::new
    dependency,   \* classify: the Dependency value built from it (NoDep before the call)
    ff_version,   \* flags: the semver::Version handed to update_feature_flags
    ff_content,   \* flags: the manifest text handed to update_feature_flags
    ff_once,      \* flags: the text after one translation
    ff_twice,     \* flags: the text after two translations
    ff_pc,        \* flags: how many translations have been applied (0, 1, 2)
    manifest,     \* the manifest files on disk: [benches |-> text, workspace |-> text]
    guards,       \* the CargoDependencyGuard values alive, oldest first
    burn_dir,     \* the value of BURN_BENCH_BURN_DIR (or its default)
    p_version,    \* patch: the version string of the patch under test
    p_pc,         \* patch: "init", "patched", "failed" or "restored"
    pre_patch,    \* patch: the manifest files as they were before Dependency::patch
    post_patch,   \* patch: the manifest files as Dependency::patch left them
    written,      \* patch: the files perform_update wrote
    m_benches,    \* RunArgs.benches
    m_backends,   \* RunArgs.backends
    m_versions,   \* RunArgs.versions
    m_dtypes,     \* RunArgs.dtypes
    m_verbose,    \* RunArgs.verbose
    drv_pc,       \* matrix driver: "command_run", "cell", "report", "done", "panicked"
    vi, bi, di,   \* matrix driver: positions of the three nested loops
    rc_pc,        \* run_cargo: "none", "patched", "featured", "spawned", "exited", "returned"
    rc_status,    \* run_cargo: what runner.run() returned
    children,     \* the child processes that were spawned and have not exited
    failed_benchmarks, \* BenchmarkCollection.failed_benchmarks
    succeeded_inc,     \* calls of RunnerProgressBar::succeeded_inc
    failed_inc,        \* calls of RunnerProgressBar::failed_inc
    pb_total,     \* the total the progress bar was created with, NoBar without a bar
    cargo_calls,  \* the run_cargo invocations so far, in order
    outcomes,     \* how each started cell ended, in order
    m_original,   \* the manifest files as they were when the run started
    sup_pc,       \* run_command: position of the calling thread
    sup_result,   \* run_command: what it returned ("none" before)
    readers,      \* run_command: state of the two reader threads, by stream
    pipes,        \* the lines waiting in the child's stdout and stderr pipes
    stream_open,  \* whether the child still holds the write end of each stream
    child_status, \* "running", or the exit status "success" / "failure"
    lines_written,   \* lines the child has written, by stream
    lines_forwarded, \* process_line calls, by stream
    progress_calls,  \* OutputProcessor::progress calls
    finish_calls,    \* OutputProcessor::finish calls
    b_env,        \* Benchmark::run: the BENCH_NUM_SAMPLES variable (Unset or its text)
    b_timing,     \* Benchmark::run: the timing_method argument
    b_pc,         \* Benchmark::run: position
    b_step,       \* Benchmark::run: the position inside the execute closure
    b_iter,       \* Benchmark::run: iterations of the current loop done
    b_calls,      \* Benchmark::run: the calls made on the benchmark so far
    b_measured,   \* Benchmark::run: the durations resolved so far, warm-up included
    b_durations,  \* Benchmark::run: the durations vector
    np_bench,     \* NiceProcessor: the bench field
    np_backend,   \* NiceProcessor: the backend field
    np_line,      \* NiceProcessor: the line last given to process_line
    np_state,     \* NiceProcessor: the NiceProcessorState of that line
    np_message,   \* progress bar: the message shown
    np_spinner,   \* progress bar: whether the spinner is started
    np_count,     \* NiceProcessor: process_line calls so far
    np_progress,  \* progress bar: advance_spinner calls
    np_finished,  \* progress bar: inc_by_one calls
    rp_pc,        \* report: position in the orchestration run
    rp_cells,     \* report: the backend label of every cell, in loop order
    rp_cell,      \* report: the index of the cell whose child is running
    rp_cell_logged,\* report: result files the current child has logged
    rp_outcomes,  \* report: per finished cell, its backend, exit code and logged count
    rp_log_exists,\* report: whether benchmark_results.txt exists
    rp_log,       \* report: the lines of benchmark_results.txt (record file paths)
    rp_files,     \* report: the record files on disk
    rp_logged,    \* report: the paths logged since the collection was created
    rp_failed,    \* BenchmarkCollection.failed_benchmarks
    rp_records,   \* BenchmarkCollection.successful_records
    rp_rows,      \* report: the rows of the rendered table, header left out
    lg_version,   \* run_cargo: the version argument
    lg_benches,   \* run_cargo: the benches argument
    lg_backend,   \* run_cargo: the backend argument
    lg_dtype,     \* run_cargo: the dtype argument
    lg_files,     \* run_cargo: the manifests, patched once the guard is held
    lg_features,  \* run_cargo: the features string handed to cargo
    lg_pc,        \* run_cargo: position
    au_env,       \* auth: GITHUB_BOT_TOKEN, <<>> when unset, <<value>> when set
    au_file,      \* auth: the token cache file, NoFile or its text
    au_pc,        \* auth: idle, ready, or panicked
    au_result,    \* auth: what the last get returned, <<>> for None, <<tokens>> for Some
    au_calls,     \* auth: the calls made so far, in order
    au_saved,     \* auth: the tokens of the save_tokens calls that returned, in order
    wh_inputs_file,\* webhook: WEBHOOK_INPUTS_FILE, Nothing when unset, else the state of the file it names
    wh_emit_started,\* webhook: BURN_BENCH_EMIT_STARTED_WEBHOOK, Nothing or its value
    wh_secret,    \* webhook: WEBHOOK_PAYLOAD_SECRET, Nothing or its value
    wh_pc,        \* webhook: idle, start, running, done or panicked
    wh_requests,  \* webhook: the requests handed to the HTTP client, in order
    wh_log,       \* webhook: the messages printed, in order
    wh_returned,  \* webhook: the webhook functions that have returned, in order
    pb_pos,       \* matrix with supervisor: the position of the shared progress bar
    pb_mutex,     \* reader threads: the holder of the progress-bar mutex, free or a stream
    line_state,   \* reader threads: per stream, the state of the line process_line is working on
    sh_token,     \* share link: the access token of the run, Nothing without one
    sh_versions,  \* share link: the versions of the run
    sh_table,     \* share link: the table of the report
    sh_link,      \* share link: what web_results_url returned
    sh_printed,   \* share link: what was printed, in order
    sh_pc,        \* share link: idle, load, link, print, done or panicked
    cm_source,    \* xtask compare: the text of backend-comparison/Cargo.toml
    cm_backup,    \* xtask compare: Cargo.toml.bak, Nothing while it does not exist
    cm_versions,  \* xtask compare: the versions to compare
    cm_i,         \* xtask compare: the index of the version at hand
    cm_pc,        \* xtask compare: idle, log, backup, update, bench, restore, map_err or returned
    cm_result,    \* xtask compare: none, Ok or Err
    cm_failed,    \* xtask compare: the step whose error is returned, none without one
    cm_original,  \* xtask compare: the text of Cargo.toml when parse was called
    cm_read,      \* xtask compare: the texts the updates have read, in order
    cm_ran        \* xtask compare: the versions whose benchmark was started, in order

clsVars == <<version, dependency>>
ffVars == <<ff_version, ff_content, ff_once, ff_twice, ff_pc>>
fileVars == <<manifest, guards, burn_dir>>
patchVars == <<p_version, p_pc, pre_patch, post_patch, written>>
argVars == <<m_benches, m_backends, m_versions, m_dtypes, m_verbose>>
drvVars == <<drv_pc, vi, bi, di, rc_pc, rc_status, children, failed_benchmarks,
             succeeded_inc, failed_inc, pb_total, cargo_calls, outcomes, m_original>>
supVars == <<sup_pc, sup_result, readers, pipes, stream_open, child_status,
             lines_written, lines_forwarded, progress_calls, finish_calls>>
benchVars == <<b_env, b_timing, b_pc, b_step, b_iter, b_calls, b_measured, b_durations>>
niceVars == <<np_bench, np_backend, np_line, np_state, np_message, np_spinner,
              np_count, np_progress, np_finished>>
repVars == <<rp_pc, rp_cells, rp_cell, rp_cell_logged, rp_outcomes, rp_log_exists,
             rp_log, rp_files, rp_logged, rp_failed, rp_records, rp_rows>>
lgVars == <<lg_version, lg_benches, lg_backend, lg_dtype, lg_files, lg_features, lg_pc>>
auVars == <<au_env, au_file, au_pc, au_result, au_calls, au_saved>>
whVars == <<wh_inputs_file, wh_emit_started, wh_secret, wh_pc, wh_requests, wh_log,
           wh_returned>>
barVars == <<pb_pos>>
mxVars == <<pb_mutex, line_state>>
shVars == <<sh_token, sh_versions, sh_table, sh_link, sh_printed, sh_pc>>
cmVars == <<cm_source, cm_backup, cm_versions, cm_i, cm_pc, cm_result, cm_failed,
           cm_original, cm_read, cm_ran>>

\* the variables each kind of run leaves alone
notClassify == <<ffVars, fileVars, patchVars, argVars, drvVars, supVars, benchVars, niceVars, repVars, lgVars, auVars, whVars, barVars, mxVars, shVars, cmVars>>
notFlags == <<clsVars, fileVars, patchVars, argVars, drvVars, supVars, benchVars, niceVars, repVars, lgVars, auVars, whVars, barVars, mxVars, shVars, cmVars>>
notPatch == <<clsVars, ffVars, argVars, drvVars, supVars, benchVars, niceVars, repVars, lgVars, auVars, whVars, barVars, mxVars, shVars, cmVars>>
notMatrix == <<clsVars, ffVars, patchVars, supVars, benchVars, niceVars, repVars, lgVars, auVars, whVars, barVars, mxVars, shVars, cmVars>>
notRunCommand == <<clsVars, ffVars, fileVars, patchVars, argVars, drvVars, benchVars, niceVars, repVars, lgVars, auVars, whVars, barVars, mxVars, shVars, cmVars>>
notBench == <<clsVars, ffVars, fileVars, patchVars, argVars, drvVars, supVars, niceVars, repVars, lgVars, auVars, whVars, barVars, mxVars, shVars, cmVars>>
notNice == <<clsVars, ffVars, fileVars, patchVars, argVars, drvVars, supVars, benchVars, repVars, lgVars, auVars, whVars, barVars, mxVars, shVars, cmVars>>
notReport == <<clsVars, ffVars, fileVars, patchVars, argVars, drvVars, supVars, benchVars, niceVars, lgVars, auVars, whVars, barVars, mxVars, shVars, cmVars>>
notLegacy == <<clsVars, ffVars, fileVars, patchVars, argVars, drvVars, supVars, benchVars, niceVars, repVars, auVars, whVars, barVars, mxVars, shVars, cmVars>>
notAuth == <<clsVars, ffVars, fileVars, patchVars, argVars, drvVars, supVars, benchVars, niceVars, repVars, lgVars, whVars, barVars, mxVars, shVars, cmVars>>
notWebhook == <<clsVars, ffVars, fileVars, patchVars, argVars, drvVars, supVars, benchVars, niceVars, repVars, lgVars, auVars, barVars, mxVars, shVars, cmVars>>
notMatrixBar == <<clsVars, ffVars, patchVars, benchVars, niceVars, repVars, lgVars, auVars, whVars, mxVars, shVars, cmVars>>
notReaders == <<clsVars, ffVars, fileVars, patchVars, argVars, drvVars, benchVars, repVars, lgVars, auVars, whVars, barVars, shVars, cmVars>>
notShare == <<clsVars, ffVars, fileVars, patchVars, argVars, drvVars, supVars, benchVars, niceVars, repVars, lgVars, auVars, whVars, barVars, mxVars, cmVars>>
notCompare == <<clsVars, ffVars, fileVars, patchVars, argVars, drvVars, supVars, benchVars, niceVars, repVars, lgVars, auVars, whVars, barVars, mxVars, shVars>>

\* ------------------------------------------------------------------------
\* Bounds of the model
\* ------------------------------------------------------------------------
MaxHexLen == 41
MaxFlagLines == 2
MaxVersions == 2
MaxBackends == 2
MaxDTypes == 2
MaxCells == 4
MaxLinesPerStream == 2
PipeCap == 1
MaxNiceLines == 3
MaxLogged == 3
MaxAuthCalls == 3
MaxCompareVersions == 2

\* ------------------------------------------------------------------------
\* Text primitives (Rust str methods, by what they do)
\* ------------------------------------------------------------------------
\* the i-th character of s, "" outside of s
Char(s, i) == IF i >= 1 /\ i <= Len(s) THEN SubSeq(s, i, i) ELSE ""

RECURSIVE Rep(_, _)
Rep(c, n) == IF n = 0 THEN "" ELSE c \o Rep(c, n - 1)

\* s[i..] starts with p
StartsAt(s, p, i) ==
    /\ i + Len(p) - 1 <= Len(s)
    /\ SubSeq(s, i, i + Len(p) - 1) = p

\* str::starts_with
StartsWith(s, p) == StartsAt(s, p, 1)

\* str::contains
Contains(s, p) == \E i \in 1..(Len(s) - Len(p) + 1) : StartsAt(s, p, i)

\* the first position >= i where p occurs in s, 0 when there is none
FindFrom(s, p, i) ==
    LET M == {j \in i..(Len(s) - Len(p) + 1) : StartsAt(s, p, j)}
    IN  IF M = {} THEN 0 ELSE CHOOSE j \in M : \A k \in M : j <= k

\* str::replace: every non-overlapping match, left to right
RECURSIVE ReplaceFrom(_, _, _, _)
ReplaceFrom(s, p, r, i) ==
    LET j == FindFrom(s, p, i)
    IN  IF j = 0 THEN SubSeq(s, i, Len(s))
        ELSE SubSeq(s, i, j - 1) \o r \o ReplaceFrom(s, p, r, j + Len(p))

StrReplace(s, p, r) == ReplaceFrom(s, p, r, 1)

Digits == {"0", "1", "2", "3", "4", "5", "6", "7", "8", "9"}
LowerHexLetters == {"a", "b", "c", "d", "e", "f"}
Letters == {"a", "b", "c", "d", "e", "f", "g", "h", "i", "j", "k", "l", "m",
            "n", "o", "p", "q", "r", "s", "t", "u", "v", "w", "x", "y", "z",
            "A", "B", "C", "D", "E", "F", "G", "H", "I", "J", "K", "L", "M",
            "N", "O", "P", "Q", "R", "S", "T", "U", "V", "W", "X", "Y", "Z"}

DigitVal(c) ==
    CASE c = "0" -> 0 [] c = "1" -> 1 [] c = "2" -> 2 [] c = "3" -> 3
      [] c = "4" -> 4 [] c = "5" -> 5 [] c = "6" -> 6 [] c = "7" -> 7
      [] c = "8" -> 8 [] c = "9" -> 9

\* ------------------------------------------------------------------------
\* semver::Version (external crate): parse, Display and ordering.
\* A numeric identifier has no leading zero, so its digit string is the
\* number; numbers are kept as digit strings and compared as such.
\* ------------------------------------------------------------------------
RECURSIVE DigitsEnd(_, _)
DigitsEnd(s, i) ==
    IF i <= Len(s) /\ Char(s, i) \in Digits THEN DigitsEnd(s, i + 1) ELSE i

\* a < b for two equally long digit strings
RECURSIVE LexLess(_, _, _)
LexLess(a, b, i) ==
    IF i > Len(a) THEN FALSE
    ELSE IF Char(a, i) = Char(b, i) THEN LexLess(a, b, i + 1)
    ELSE DigitVal(Char(a, i)) < DigitVal(Char(b, i))

\* a < b for two numbers written without leading zeros
NumLess(a, b) ==
    \/ Len(a) < Len(b)
    \/ Len(a) = Len(b) /\ LexLess(a, b, 1)

U64Max == "18446744073709551615"

ParseFail == [ok |-> FALSE]

\* numeric_identifier: digits, no leading zero, fits u64
NumericIdentifier(s, i) ==
    LET j == DigitsEnd(s, i)
        d == SubSeq(s, i, j - 1)
    IN  IF j = i THEN ParseFail
        ELSE IF j - i > 1 /\ Char(s, i) = "0" THEN ParseFail
        ELSE IF NumLess(U64Max, d) THEN ParseFail
        ELSE [ok |-> TRUE, val |-> d, next |-> j]

IdentChars == Digits \cup Letters \cup {"-"}

RECURSIVE IdentEnd(_, _)
IdentEnd(s, i) ==
    IF i <= Len(s) /\ Char(s, i) \in (IdentChars \cup {"."})
    THEN IdentEnd(s, i + 1) ELSE i

\* the dot-separated segments of an identifier are all non-empty, and (for a
\* pre-release) a numeric segment has no leading zero
RECURSIVE SegmentsOk(_, _, _, _)
SegmentsOk(t, i, segStart, isPre) ==
    LET seg == SubSeq(t, segStart, i - 1)
        segOk ==
            /\ seg /= ""
            /\ ~ (/\ isPre
                  /\ Len(seg) > 1
                  /\ Char(seg, 1) = "0"
                  /\ DigitsEnd(seg, 1) = Len(seg) + 1)
    IN  IF i > Len(t) THEN segOk
        ELSE IF Char(t, i) = "." THEN segOk /\ SegmentsOk(t, i + 1, i + 1, isPre)
        ELSE SegmentsOk(t, i + 1, segStart, isPre)

\* Version::from_str
VersionParse(s) ==
    LET maj == NumericIdentifier(s, 1)
    IN  IF ~ maj.ok THEN ParseFail
        ELSE IF Char(s, maj.next) /= "." THEN ParseFail
        ELSE
    LET min == NumericIdentifier(s, maj.next + 1)
    IN  IF ~ min.ok THEN ParseFail
        ELSE IF Char(s, min.next) /= "." THEN ParseFail
        ELSE
    LET pat == NumericIdentifier(s, min.next + 1)
    IN  IF ~ pat.ok THEN ParseFail
        ELSE
    LET p == pat.next
        hasPre == Char(s, p) = "-"
        preEnd == IF hasPre THEN IdentEnd(s, p + 1) ELSE p
        pre == IF hasPre THEN SubSeq(s, p + 1, preEnd - 1) ELSE ""
        hasBuild == Char(s, preEnd) = "+"
        buildEnd == IF hasBuild THEN IdentEnd(s, preEnd + 1) ELSE preEnd
        build == IF hasBuild THEN SubSeq(s, preEnd + 1, buildEnd - 1) ELSE ""
    IN  IF hasPre /\ ~ SegmentsOk(pre, 1, 1, TRUE) THEN ParseFail
        ELSE IF hasBuild /\ ~ SegmentsOk(build, 1, 1, FALSE) THEN ParseFail
        ELSE IF buildEnd <= Len(s) THEN ParseFail
        ELSE [ok |-> TRUE,
              v |-> [major |-> maj.val, minor |-> min.val, patch |-> pat.val,
                     pre |-> pre, build |-> build]]

\* Version::new(major, minor, patch)
VersionNew(major, minor, patch) ==
    [major |-> major, minor |-> minor, patch |-> patch, pre |-> "", build |-> ""]

\* impl Display for Version
VersionToString(v) ==
    v.major \o "." \o v.minor \o "." \o v.patch
      \o (IF v.pre = "" THEN "" ELSE "-" \o v.pre)
      \o (IF v.build = "" THEN "" ELSE "+" \o v.build)

\* v < Version::new(..) : the bound has no pre-release and no build metadata,
\* so v is smaller iff its core is smaller, or equal with a pre-release
VersionLessThanRelease(v, b) ==
    \/ NumLess(v.major, b.major)
    \/ v.major = b.major /\ NumLess(v.minor, b.minor)
    \/ v.major = b.major /\ v.minor = b.minor /\ NumLess(v.patch, b.patch)
    \/ v.major = b.major /\ v.minor = b.minor /\ v.patch = b.patch /\ v.pre /= ""

\* ------------------------------------------------------------------------
\* runner/dependency.rs : Dependency::new
\* ------------------------------------------------------------------------
HexMin == 7
HexMax == 40

RECURSIVE AllIn(_, _, _)
AllIn(s, set, i) ==
    IF i > Len(s) THEN TRUE
    ELSE Char(s, i) \in set /\ AllIn(s, set, i + 1)

\* is_commit_hash with the upper length bound taken as exclusive
is_commit_hash_ExclusiveMax(reference) ==
    /\ Len(reference) >= HexMin
    /\ Len(reference) < HexMax
    /\ AllIn(reference, Digits \cup LowerHexLetters, 1)

\* Regex ^[0-9a-f]{7,40}$
is_commit_hash(reference) ==
    /\ Len(reference) >= HexMin
    /\ Len(reference) <= HexMax
    /\ AllIn(reference, Digits \cup LowerHexLetters, 1)

NoDep == [kind |-> "none"]
DepLocal == [kind |-> "Local"]
DepCrate(v) == [kind |-> "Crate", version |-> v]
DepGit(ref) == [kind |-> "Git", ref |-> ref]

\* Dependency::new that takes every git reference for a commit
DependencyNew_AlwaysRev(ver) ==
    IF ver = "local" THEN DepLocal
    ELSE IF VersionParse(ver).ok THEN DepCrate(VersionParse(ver).v)
    ELSE DepGit("rev = \"" \o ver \o "\"")

DependencyNew(ver) ==
    IF ver = "local" THEN DepLocal
    ELSE IF VersionParse(ver).ok THEN DepCrate(VersionParse(ver).v)
    ELSE IF is_commit_hash(ver) THEN DepGit("rev = \"" \o ver \o "\"")
    ELSE DepGit("branch = \"" \o ver \o "\"")

\* ------------------------------------------------------------------------
\* runner/dependency.rs : Dependency::update_feature_flags
\* ------------------------------------------------------------------------
BincodePin == "bincode = \"=2.0.0-rc.3\""

\* a replacement that pins nothing
BincodeInsert_NoPin == "[dependencies]"

\* the replacement for "[dependencies]" that pins bincode
BincodeInsert ==
    "[dependencies]\nbincode = \"=2.0.0-rc.3\"\nbincode_derive = \"=2.0.0-rc.3\""

\* the chain of str::replace calls, in source order
LegacyRenames == <<
    <<"cuda = [\"burn/cuda\"]", "cuda = [\"burn/cuda-jit\"]">>,
    <<"rocm = [\"burn/rocm\"]", "rocm = [\"burn/hip-jit\"]">>,
    <<"ndarray-simd = [\"ndarray\", \"burn/simd\"]", "ndarray-simd = [\"ndarray\"]">>,
    <<"vulkan = [\"burn/vulkan\", \"burn/autotune\"]",
      "vulkan = [\"burn/wgpu-spirv\", \"burn/autotune\"]">>,
    <<"metal = [\"burn/vulkan\", \"burn/autotune\"]",
      "metal = [\"burn/wgpu\", \"burn/autotune\"]">>,
    <<"ndarray-simd = [\"burn/ndarray\", \"burn/simd\"]",
      "ndarray-simd = [\"burn/ndarray\"]">>,
    <<"candle-metal = [\"burn/candle\", \"burn/candle-metal\"]",
      "candle-metal = [\"burn/candle\", \"burn/metal\"]">>,
    <<"rand = { version = \"0.9.0\" }", "rand = { version = \"0.8.5\" }">>
>>

RECURSIVE ApplyRenames(_, _)
ApplyRenames(content, k) ==
    IF k > Len(LegacyRenames) THEN content
    ELSE ApplyRenames(StrReplace(content, LegacyRenames[k][1], LegacyRenames[k][2]), k + 1)

\* update_feature_flags without the "already pinned" test
update_feature_flags_AlwaysPin(ver, content) ==
    IF VersionLessThanRelease(ver, VersionNew("0", "17", "0"))
    THEN LET renamed == ApplyRenames(content, 1)
         IN  IF VersionLessThanRelease(ver, VersionNew("0", "16", "1"))
             THEN StrReplace(renamed, "[dependencies]", BincodeInsert)
             ELSE renamed
    ELSE content

update_feature_flags(ver, content) ==
    IF VersionLessThanRelease(ver, VersionNew("0", "17", "0"))
    THEN LET renamed == ApplyRenames(content, 1)
         IN  IF /\ VersionLessThanRelease(ver, VersionNew("0", "16", "1"))
                /\ ~ Contains(renamed, BincodePin)
             THEN StrReplace(renamed, "[dependencies]", BincodeInsert)
             ELSE renamed
    ELSE content

\* ------------------------------------------------------------------------
\* runner/dependency.rs : Dependency::patch and the guards
\* ------------------------------------------------------------------------
BURN_BASE == <<"burn", "burn-common", "burn-import">>

\* Regex::replace_all for  base + " = \{([^\}]|\n)*\}" : a match starts at
\* base = { and ends at the first closing brace after it (the replacement
\* texts of the model hold no $ capture reference)
RECURSIVE ReplaceTables(_, _, _, _)
ReplaceTables(s, base, r, i) ==
    LET open == base \o " = {"
        j == FindFrom(s, open, i)
        k == IF j = 0 THEN 0 ELSE FindFrom(s, "}", j + Len(open))
    IN  IF k = 0 THEN SubSeq(s, i, Len(s))
        ELSE SubSeq(s, i, j - 1) \o r \o ReplaceTables(s, base, r, k + 1)

\* the "for base in BURN_BASE" loop shared by the three update closures;
\* table[base] is the replacement text
BaseNames == {BURN_BASE[i] : i \in 1..Len(BURN_BASE)}

RECURSIVE ReplaceAllBases(_, _, _)
ReplaceAllBases(content, table, n) ==
    IF n > Len(BURN_BASE) THEN content
    ELSE ReplaceAllBases(ReplaceTables(content, BURN_BASE[n], table[BURN_BASE[n]], 1),
                         table, n + 1)

None == [some |-> FALSE, content |-> ""]
Some(text) == [some |-> TRUE, content |-> text]

\* DependencyContent::from_path; io names the file access that fails
from_path(files, io) ==
    LET benches == files.benches
        burn_in_workspace ==
            \/ Contains(benches, "burn = \"workspace\"")
            \/ Contains(benches, "burn = { workspace = true")
    IN  IF io = "read_benches" THEN [ok |-> FALSE]
        ELSE IF burn_in_workspace /\ io = "read_workspace" THEN [ok |-> FALSE]
        ELSE [ok |-> TRUE,
              benches |-> benches,
              workspace |-> IF burn_in_workspace THEN Some(files.workspace) ELSE None]

\* DependencyContent::update, the closure being the base loop over table
ContentUpdate(content, table) ==
    IF content.workspace.some
    THEN [benches |-> None,
          workspace |-> Some(ReplaceAllBases(content.workspace.content, table, 1))]
    ELSE [benches |-> Some(ReplaceAllBases(content.benches, table, 1)),
          workspace |-> None]

\* update_burn_version that leaves the feature flags alone
update_burn_version_NoFlags(content, ver) ==
    LET table == [base \in BaseNames |->
                     base \o " = { version = \"=" \o VersionToString(ver)
                          \o "\", default-features = false }"]
    IN  ContentUpdate(content, table)

\* update_burn_version: the tables of the file that declares burn, and the
\* feature flags of the crate manifest
update_burn_version(content, ver) ==
    LET table == [base \in BaseNames |->
                     base \o " = { version = \"=" \o VersionToString(ver)
                          \o "\", default-features = false }"]
        update_version(text) == ReplaceAllBases(text, table, 1)
    IN  IF content.workspace.some
        THEN [benches |-> Some(update_feature_flags(ver, content.benches)),
              workspace |-> Some(update_version(content.workspace.content))]
        ELSE [benches |-> Some(update_feature_flags(ver, update_version(content.benches))),
              workspace |-> None]

update_burn_git(content, reference) ==
    LET table == [base \in BaseNames |->
                     base \o " = { git = \"https://github.com/tracel-ai/burn\", "
                          \o reference \o ", default-features = false }"]
    IN  ContentUpdate(content, table)

\* Path::join: an absolute right-hand side replaces the left-hand side
PathJoin(left, right) == IF StartsWith(right, "/") THEN right ELSE left \o right

update_burn_local(content, dir) ==
    LET repo_path == IF content.workspace.some THEN dir ELSE PathJoin("../", dir)
        table == [base \in BaseNames |->
                     base \o " = { path = \"" \o repo_path \o "crates/" \o base
                          \o "\", default-features = false }"]
    IN  ContentUpdate(content, table)

\* a TomlDependencyGuard per captured file; NoToml when the option is None
NoToml == [some |-> FALSE, cargo_file_path |-> "", original_content |-> ""]
Toml(path, text) == [some |-> TRUE, cargo_file_path |-> path, original_content |-> text]

\* create_guard that captures the updated text instead of the original
create_guard_KeepsUpdate(update, content) ==
    [benches |-> IF update.benches.some
                 THEN Toml("benches", update.benches.content) ELSE NoToml,
     workspace |-> IF update.workspace.some
                   THEN Toml("workspace", update.workspace.content) ELSE NoToml]

\* DependencyContentUpdate::create_guard
create_guard(update, content) ==
    [benches |-> IF update.benches.some
                 THEN Toml("benches", content.benches) ELSE NoToml,
     workspace |-> IF update.workspace.some
                   THEN Toml("workspace", content.workspace.content) ELSE NoToml]

\* impl Drop for TomlDependencyGuard: truncate, then write the original text
DropToml(files, toml) ==
    IF toml.some
    THEN [files EXCEPT ![toml.cargo_file_path] = toml.original_content]
    ELSE files

\* dropping a CargoDependencyGuard drops its fields in declaration order
DropGuard(files, guard) == DropToml(DropToml(files, guard.benches), guard.workspace)

\* what a failed std::fs::write leaves behind: the old text (the file could
\* not be opened), an empty file (truncated, nothing written), or a prefix
\* of the new text
TornModes == {"untouched", "truncated", "partial"}

TornWrite(old, new, torn) ==
    CASE torn = "untouched" -> old
      [] torn = "truncated" -> ""
      [] torn = "partial" -> SubSeq(new, 1, Len(new) \div 2)

\* DependencyContentUpdate::perform_update; io names the write that fails,
\* torn what it leaves in its file
perform_update(files, update, io, torn) ==
    IF update.benches.some /\ io = "write_benches"
    THEN [ok |-> FALSE,
          files |-> [files EXCEPT
                       !.benches = TornWrite(@, update.benches.content, torn)],
          written |-> {"benches"}]
    ELSE
    LET f1 == IF update.benches.some
              THEN [files EXCEPT !.benches = update.benches.content] ELSE files
        w1 == IF update.benches.some THEN {"benches"} ELSE {}
    IN  IF update.workspace.some /\ io = "write_workspace"
        THEN [ok |-> FALSE,
              files |-> [f1 EXCEPT
                           !.workspace = TornWrite(@, update.workspace.content, torn)],
              written |-> w1 \cup {"workspace"}]
        ELSE [ok |-> TRUE,
              files |-> IF update.workspace.some
                        THEN [f1 EXCEPT !.workspace = update.workspace.content]
                        ELSE f1,
              written |-> w1 \cup (IF update.workspace.some THEN {"workspace"} ELSE {})]

\* the ways the file accesses of one patch call can go: all succeed, a read
\* fails, or a write fails leaving its file torn
IoOutcomes ==
    {[io |-> "ok", torn |-> "untouched"],
     [io |-> "read_benches", torn |-> "untouched"],
     [io |-> "read_workspace", torn |-> "untouched"]}
      \cup {[io |-> w, torn |-> t] : w \in {"write_benches", "write_workspace"},
                                    t \in TornModes}

\* patch with the guard created after the update was performed: a failing
\* write returns before any guard exists
DependencyPatch_GuardAfterWrite(dep, files, dir, io, torn) ==
    LET content_original == from_path(files, io)
    IN  IF ~ content_original.ok
        THEN [ok |-> FALSE, files |-> files, written |-> {}]
        ELSE
    LET content ==
            CASE dep.kind = "Local" -> update_burn_local(content_original, dir)
              [] dep.kind = "Crate" -> update_burn_version(content_original, dep.version)
              [] dep.kind = "Git" -> update_burn_git(content_original, dep.ref)
        res == perform_update(files, content, io, torn)
        guard == create_guard(content, content_original)
    IN  IF res.ok
        THEN [ok |-> TRUE, files |-> res.files, guard |-> guard, written |-> res.written]
        ELSE [ok |-> FALSE, files |-> res.files, written |-> res.written]

\* Dependency::patch. On Err the guard (if it was created) goes out of scope
\* inside patch and restores what it captured.
DependencyPatch(dep, files, dir, io, torn) ==
    LET content_original == from_path(files, io)
    IN  IF ~ content_original.ok
        THEN [ok |-> FALSE, files |-> files, written |-> {}]
        ELSE
    LET content ==
            CASE dep.kind = "Local" -> update_burn_local(content_original, dir)
              [] dep.kind = "Crate" -> update_burn_version(content_original, dep.version)
              [] dep.kind = "Git" -> update_burn_git(content_original, dep.ref)
        guard == create_guard(content, content_original)
        res == perform_update(files, content, io, torn)
    IN  IF res.ok
        THEN [ok |-> TRUE, files |-> res.files, guard |-> guard, written |-> res.written]
        ELSE [ok |-> FALSE, files |-> DropGuard(res.files, guard), written |-> res.written]

\* ------------------------------------------------------------------------
\* Classification runs: one call of Dependency::new on a drawn version string
\* ------------------------------------------------------------------------
NamedVersions ==
    {"local", "main", "0.17.0", "0.16.0", "v7f9a2b1", "7f9a2b1", "", "Local",
     "local ", "1.0", "01.2.3", "0.17.0-pre.1", "0.17.0-01", "1.2.3+build.01",
     "1.2.3-", "1.2", "0.17", "v0.17.0", "0.17.0 ", "deadbeef", "feature/x",
     "abcdefg", "ABCDEF0", "1234567", "123456", "12345678.0.0",
     "18446744073709551615.0.0", "18446744073709551616.0.0", "0.0.0", "1..2",
     "PR#12_7f9a2b1", "0.16.0-a.b-c+d"}

VersionInputs ==
    NamedVersions
      \cup {Rep(c, n) : c \in {"a", "7", "A", "g"}, n \in 0..MaxHexLen}
      \cup {Rep("f", n) \o "v" : n \in 0..MaxHexLen}

ClsIdle == version = "" /\ dependency = NoDep

ClsInit == version \in VersionInputs /\ dependency = NoDep

Classify ==
    /\ dependency = NoDep
    /\ dependency' = DependencyNew(version)
    /\ UNCHANGED <<version, notClassify>>

\* ------------------------------------------------------------------------
\* Translation runs: update_feature_flags applied twice to a drawn manifest
\* ------------------------------------------------------------------------
FlagVersionStrings == {"0.15.0", "0.16.0", "0.16.1", "0.17.0-pre.1", "0.17.0", "1.0.0"}

FlagVersions == {VersionParse(t).v : t \in FlagVersionStrings}

ManifestLines ==
    {LegacyRenames[k][1] \o "\n" : k \in 1..Len(LegacyRenames)}
      \cup {"[dependencies]\n", "[dev-dependencies]\n", BincodePin \o "\n",
            "candle-", "cuda = [\"burn/cuda-jit\"]\n", "[features]\n"}

RECURSIVE TextsOf(_)
TextsOf(n) ==
    IF n = 0 THEN {""}
    ELSE TextsOf(n - 1) \cup {t \o l : t \in TextsOf(n - 1), l \in ManifestLines}

FFIdle ==
    /\ ff_version = VersionNew("0", "0", "0")
    /\ ff_content = ""
    /\ ff_once = ""
    /\ ff_twice = ""
    /\ ff_pc = 0

FFInit ==
    /\ ff_version \in FlagVersions
    /\ ff_content \in TextsOf(MaxFlagLines)
    /\ ff_once = ""
    /\ ff_twice = ""
    /\ ff_pc = 0

TranslateOnce ==
    /\ ff_pc = 0
    /\ ff_once' = update_feature_flags(ff_version, ff_content)
    /\ ff_pc' = 1
    /\ UNCHANGED <<ff_version, ff_content, ff_twice, notFlags>>

TranslateAgain ==
    /\ ff_pc = 1
    /\ ff_twice' = update_feature_flags(ff_version, ff_once)
    /\ ff_pc' = 2
    /\ UNCHANGED <<ff_version, ff_content, ff_once, notFlags>>

\* ------------------------------------------------------------------------
\* Patch runs: Dependency::patch on a drawn manifest layout, then the guard
\* is dropped
\* ------------------------------------------------------------------------
\* burn declared in the crate manifest itself
DirectManifest ==
    "[dependencies]\nburn = { version = \"0.18.0\",\n features = [\"std\"] }\n"
      \o "burn-common = { path = \"../c\" }\nrand = { version = \"0.9.0\" }\n"
      \o "[features]\ncuda = [\"burn/cuda\"]\n"

\* burn inherited from the workspace
InheritingManifest ==
    "[dependencies]\nburn = { workspace = true }\n"
      \o "[features]\nrocm = [\"burn/rocm\"]\n"

InheritingManifestShort == "[dependencies]\nburn = \"workspace\"\n"

WorkspaceManifest ==
    "[workspace.dependencies]\nburn = { git = \"u\", branch = \"main\" }\n"
      \o "burn-import = { version = \"0.18.0\" }\n"

ManifestLayouts ==
    {[benches |-> b, workspace |-> WorkspaceManifest] :
        b \in {DirectManifest, InheritingManifest, InheritingManifestShort}}

PatchVersionInputs ==
    {"local", "0.15.0", "0.16.0", "0.16.5", "0.17.0", "0.18.0", "7f9a2b1", "main",
     "v7f9a2b1", "feature/x"}

BurnDirs == {"../burn/", "/opt/burn/"}

FileIdle == manifest = [benches |-> "", workspace |-> ""] /\ guards = <<>> /\ burn_dir = ""

PatchIdle ==
    /\ p_version = ""
    /\ p_pc = "idle"
    /\ pre_patch = [benches |-> "", workspace |-> ""]
    /\ post_patch = [benches |-> "", workspace |-> ""]
    /\ written = {}

PatchInit ==
    /\ manifest \in ManifestLayouts
    /\ guards = <<>>
    /\ burn_dir \in BurnDirs
    /\ p_version \in PatchVersionInputs
    /\ p_pc = "init"
    /\ pre_patch = manifest
    /\ post_patch = manifest
    /\ written = {}

\* let guard = Dependency::new(version).patch(path)
PatchManifest ==
    /\ p_pc = "init"
    /\ \E f \in IoOutcomes :
         LET res == DependencyPatch(DependencyNew(p_version), manifest, burn_dir,
                                    f.io, f.torn)
         IN  /\ manifest' = res.files
             /\ post_patch' = res.files
             /\ written' = res.written
             /\ guards' = IF res.ok THEN Append(guards, res.guard) ELSE guards
             /\ p_pc' = IF res.ok THEN "patched" ELSE "failed"
    /\ UNCHANGED <<burn_dir, p_version, pre_patch, notPatch>>

\* drop(guard)
RestoreManifest ==
    /\ p_pc = "patched"
    /\ manifest' = DropGuard(manifest, guards[Len(guards)])
    /\ guards' = SubSeq(guards, 1, Len(guards) - 1)
    /\ p_pc' = "restored"
    /\ UNCHANGED <<burn_dir, p_version, pre_patch, post_patch, written, notPatch>>

\* the orchestrator process ends by a signal while the guard is alive: no
\* drop runs, the guard is gone with the process, the files stay as they are
KillOrchestrator_RunsDrop ==
    /\ p_pc = "patched"
    /\ manifest' = DropGuard(manifest, guards[Len(guards)])
    /\ guards' = <<>>
    /\ p_pc' = "killed"
    /\ UNCHANGED <<burn_dir, p_version, pre_patch, post_patch, written, notPatch>>

KillOrchestrator ==
    /\ p_pc = "patched"
    /\ guards' = <<>>
    /\ p_pc' = "killed"
    /\ UNCHANGED <<manifest, burn_dir, p_version, pre_patch, post_patch, written, notPatch>>

\* the next run: Dependency::new(version).patch(path) of a fresh process on
\* the files the killed one left behind
RerunPatch ==
    /\ p_pc = "killed"
    /\ \E v \in PatchVersionInputs, f \in IoOutcomes :
         \E res \in {DependencyPatch(DependencyNew(v), manifest, burn_dir, f.io, f.torn)} :
             /\ p_version' = v
             /\ manifest' = res.files
             /\ written' = res.written
             /\ guards' = IF res.ok THEN Append(guards, res.guard) ELSE guards
             /\ p_pc' = IF res.ok THEN "repatched" ELSE "refailed"
    /\ UNCHANGED <<burn_dir, pre_patch, post_patch, notPatch>>

\* drop(guard) of the next run
RerunRestore ==
    /\ p_pc = "repatched"
    /\ manifest' = DropGuard(manifest, guards[Len(guards)])
    /\ guards' = SubSeq(guards, 1, Len(guards) - 1)
    /\ p_pc' = "rerestored"
    /\ UNCHANGED <<burn_dir, p_version, pre_patch, post_patch, written, notPatch>>

\* ------------------------------------------------------------------------
\* runner/base.rs : command_run, run_backend_comparison_benchmarks, run_cargo
\* ------------------------------------------------------------------------
NoBar == -1

\* the lists a run is started with: prefixes of these
VersionPool == <<"0.16.0", "main", "PR#12_7f9a2b1">>
BackendPool == <<"ndarray", "wgpu", "cuda">>
DTypePool == <<"f16", "f32", "bf16">>
BenchLists == {<<>>, <<"matmul", "binary">>}

Min(a, b) == IF a < b THEN a ELSE b

\* [T]::join(", ")
RECURSIVE Join(_)
Join(list) ==
    IF Len(list) = 0 THEN ""
    ELSE IF Len(list) = 1 THEN list[1]
    ELSE list[1] \o ", " \o Join(Tail(list))

\* get_version: "PR#number_sha1" yields sha1, anything else is untouched
get_version(ver) ==
    IF StartsWith(ver, "PR#")
    THEN LET suffix == SubSeq(ver, 4, Len(ver))
             u == FindFrom(suffix, "_", 1)
         IN  IF u = 0 THEN ver ELSE SubSeq(suffix, u + 1, Len(suffix))
    ELSE ver

\* a command_run that sets no default
DefaultIfEmpty_Keeps(list, default) == list

\* the defaults command_run sets
DefaultIfEmpty(list, default) == IF list = <<>> THEN <<default>> ELSE list

\* total_count
TotalCount == Len(m_backends) * Len(m_versions) * Len(m_dtypes)

\* the three nested for loops, dtype innermost, with version innermost instead
NextCell_VersionInnermost(v, b, d) ==
    IF v < Len(m_versions) THEN [v |-> v + 1, b |-> b, d |-> d, more |-> TRUE]
    ELSE IF b < Len(m_backends) THEN [v |-> 1, b |-> b + 1, d |-> d, more |-> TRUE]
    ELSE IF d < Len(m_dtypes) THEN [v |-> 1, b |-> 1, d |-> d + 1, more |-> TRUE]
    ELSE [v |-> v, b |-> b, d |-> d, more |-> FALSE]

\* the three nested for loops: the position after (v, b, d)
NextCell(v, b, d) ==
    IF d < Len(m_dtypes) THEN [v |-> v, b |-> b, d |-> d + 1, more |-> TRUE]
    ELSE IF b < Len(m_backends) THEN [v |-> v, b |-> b + 1, d |-> 1, more |-> TRUE]
    ELSE IF v < Len(m_versions) THEN [v |-> v + 1, b |-> 1, d |-> 1, more |-> TRUE]
    ELSE [v |-> v, b |-> b, d |-> d, more |-> FALSE]

\* a driver that gives up on the first failing cell
AfterStatus_FailFast(status) == IF status = "success" THEN "continue" ELSE "panic"

\* status.unwrap().success(): an io::Error panics, every exit status goes on
AfterStatus(status) == IF status = "ioerr" THEN "panic" ELSE "continue"

\* a release that leaves the guard alive
ReleaseGuard_Leak(gs) == gs

\* core::mem::drop(guard), or the guard going out of scope while unwinding
ReleaseGuard(gs) == SubSeq(gs, 1, Len(gs) - 1)

\* a drop that restores the crate manifest only
RestoreFiles_BenchesOnly(files, gs) ==
    IF gs = <<>> THEN files ELSE DropToml(files, gs[Len(gs)].benches)

\* the files after the youngest guard has run its Drop
RestoreFiles(files, gs) ==
    IF gs = <<>> THEN files ELSE DropGuard(files, gs[Len(gs)])

DrvIdle ==
    /\ m_benches = <<>> /\ m_backends = <<>> /\ m_versions = <<>> /\ m_dtypes = <<>>
    /\ m_verbose = FALSE
    /\ drv_pc = "idle" /\ vi = 0 /\ bi = 0 /\ di = 0
    /\ rc_pc = "none" /\ rc_status = "none" /\ children = {}
    /\ failed_benchmarks = <<>> /\ succeeded_inc = 0 /\ failed_inc = 0
    /\ pb_total = NoBar /\ cargo_calls = <<>> /\ outcomes = <<>>
    /\ m_original = [benches |-> "", workspace |-> ""]

DrvInit ==
    /\ m_benches \in BenchLists
    /\ \E n \in 1..Min(MaxBackends, Len(BackendPool)) : m_backends = SubSeq(BackendPool, 1, n)
    /\ \E n \in 0..Min(MaxVersions, Len(VersionPool)) : m_versions = SubSeq(VersionPool, 1, n)
    /\ \E n \in 0..Min(MaxDTypes, Len(DTypePool)) : m_dtypes = SubSeq(DTypePool, 1, n)
    /\ Len(DefaultIfEmpty(m_versions, "main")) * Len(m_backends)
         * Len(DefaultIfEmpty(m_dtypes, "f32")) <= MaxCells
    /\ m_verbose \in BOOLEAN
    /\ manifest \in {[benches |-> b, workspace |-> WorkspaceManifest] :
                        b \in {DirectManifest, InheritingManifest}}
    /\ guards = <<>>
    /\ burn_dir = "../burn/"
    /\ drv_pc = "command_run" /\ vi = 0 /\ bi = 0 /\ di = 0
    /\ rc_pc = "none" /\ rc_status = "none" /\ children = {}
    /\ failed_benchmarks = <<>> /\ succeeded_inc = 0 /\ failed_inc = 0
    /\ pb_total = NoBar /\ cargo_calls = <<>> /\ outcomes = <<>>
    /\ m_original = manifest

\* command_run up to the first cell: defaults, total_count, the progress bar
CommandRun ==
    /\ drv_pc = "command_run"
    /\ m_dtypes' = DefaultIfEmpty(m_dtypes, "f32")
    /\ m_benches' = DefaultIfEmpty(m_benches, "all")
    /\ m_versions' = DefaultIfEmpty(m_versions, "main")
    /\ pb_total' = IF m_verbose THEN NoBar
                   ELSE Len(m_backends) * Len(m_versions') * Len(m_dtypes')
    /\ vi' = 1 /\ bi' = 1 /\ di' = 1
    /\ drv_pc' = "cell"
    /\ UNCHANGED <<m_backends, m_verbose, rc_pc, rc_status, children, failed_benchmarks,
                   succeeded_inc, failed_inc, cargo_calls, outcomes, m_original,
                   fileVars, notMatrix>>

\* a panic inside run_cargo: the locals are dropped while unwinding, the
\* guard among them, and the panic leaves the matrix driver as well
Unwind(outcome) ==
    /\ manifest' = RestoreFiles(manifest, guards)
    /\ guards' = IF guards = <<>> THEN guards ELSE ReleaseGuard(guards)
    /\ outcomes' = Append(outcomes, outcome)
    /\ rc_pc' = "none"
    /\ drv_pc' = "panicked"

\* run_cargo entered for cell (vi, bi, di): dependency.patch(..).unwrap()
RcPatch ==
    /\ drv_pc = "cell" /\ rc_pc = "none"
    /\ cargo_calls' = Append(cargo_calls,
            [version |-> m_versions[vi], backend |-> m_backends[bi],
             dtype |-> m_dtypes[di], benches |-> m_benches])
    /\ \E f \in IoOutcomes :
         LET dep == DependencyNew(get_version(m_versions[vi]))
             res == DependencyPatch(dep, manifest, burn_dir, f.io, f.torn)
         IN  IF res.ok
             THEN /\ manifest' = res.files
                  /\ guards' = Append(guards, res.guard)
                  /\ rc_pc' = "patched"
                  /\ UNCHANGED <<drv_pc, outcomes>>
             ELSE /\ manifest' = res.files
                  /\ guards' = guards
                  /\ outcomes' = Append(outcomes, "patch_panic")
                  /\ rc_pc' = "none"
                  /\ drv_pc' = "panicked"
    /\ UNCHANGED <<burn_dir, vi, bi, di, rc_status, children, failed_benchmarks,
                   succeeded_inc, failed_inc, pb_total, m_original,
                   argVars, notMatrix>>

\* the feature string: get_required_features reads and parses the manifest
\* and panics when it cannot
RcFeatures ==
    /\ drv_pc = "cell" /\ rc_pc = "patched"
    /\ \/ /\ rc_pc' = "featured"
          /\ UNCHANGED <<manifest, guards, outcomes, drv_pc>>
       \/ Unwind("panic")
    /\ UNCHANGED <<burn_dir, vi, bi, di, rc_status, children, failed_benchmarks,
                   succeeded_inc, failed_inc, pb_total, cargo_calls, m_original,
                   argVars, notMatrix>>

\* CargoRunner::run_bench: spawn, "Cargo command should start successfully"
RcSpawn ==
    /\ drv_pc = "cell" /\ rc_pc = "featured"
    /\ \/ /\ children' = children \cup {Len(cargo_calls)}
          /\ rc_pc' = "spawned"
          /\ UNCHANGED <<manifest, guards, outcomes, drv_pc>>
       \/ /\ Unwind("panic")
          /\ UNCHANGED children
    /\ UNCHANGED <<burn_dir, vi, bi, di, rc_status, failed_benchmarks,
                   succeeded_inc, failed_inc, pb_total, cargo_calls, m_original,
                   argVars, notMatrix>>

\* CargoRunner::run_command: returns the exit status once the child has
\* exited, an io::Error when wait() fails, or panics with a reader thread
RcRunCommand ==
    /\ drv_pc = "cell" /\ rc_pc = "spawned"
    /\ \/ /\ \E st \in {"success", "failure"} : rc_status' = st
          /\ children' = children \ {Len(cargo_calls)}
          /\ rc_pc' = "exited"
          /\ UNCHANGED <<manifest, guards, outcomes, drv_pc>>
       \/ /\ rc_status' = "ioerr"
          /\ rc_pc' = "exited"
          /\ UNCHANGED <<children, manifest, guards, outcomes, drv_pc>>
       \/ /\ Unwind("panic")
          /\ UNCHANGED <<children, rc_status>>
    /\ UNCHANGED <<burn_dir, vi, bi, di, failed_benchmarks,
                   succeeded_inc, failed_inc, pb_total, cargo_calls, m_original,
                   argVars, notMatrix>>

\* core::mem::drop(guard); status
RcDropGuard ==
    /\ drv_pc = "cell" /\ rc_pc = "exited"
    /\ manifest' = RestoreFiles(manifest, guards)
    /\ guards' = ReleaseGuard(guards)
    /\ rc_pc' = "returned"
    /\ UNCHANGED <<burn_dir, drv_pc, vi, bi, di, rc_status, children, failed_benchmarks,
                   succeeded_inc, failed_inc, pb_total, cargo_calls, outcomes, m_original,
                   argVars, notMatrix>>

\* back in the loop body: status.unwrap().success(), the counters, the
\* FailedBenchmark, and the loops move on
DrvRecord ==
    /\ drv_pc = "cell" /\ rc_pc = "returned"
    /\ rc_pc' = "none"
    /\ rc_status' = "none"
    /\ outcomes' = Append(outcomes, rc_status)
    /\ IF AfterStatus(rc_status) = "panic"
       THEN /\ drv_pc' = "panicked"
            /\ UNCHANGED <<vi, bi, di, failed_benchmarks, succeeded_inc, failed_inc>>
       ELSE /\ IF rc_status = "success"
               THEN /\ succeeded_inc' = IF pb_total /= NoBar
                                        THEN succeeded_inc + 1 ELSE succeeded_inc
                    /\ UNCHANGED <<failed_inc, failed_benchmarks>>
               ELSE /\ failed_inc' = IF pb_total /= NoBar
                                     THEN failed_inc + 1 ELSE failed_inc
                    /\ failed_benchmarks' = Append(failed_benchmarks,
                            [bench |-> Join(m_benches), backend |-> m_backends[bi]])
                    /\ UNCHANGED succeeded_inc
            /\ LET n == NextCell(vi, bi, di)
               IN  /\ vi' = n.v /\ bi' = n.b /\ di' = n.d
                   /\ drv_pc' = IF n.more THEN "cell" ELSE "report"
    /\ UNCHANGED <<children, pb_total, cargo_calls, m_original,
                   fileVars, argVars, notMatrix>>

\* after the loops: the bar is finished, the records are loaded, the table
\* is printed
DrvReport ==
    /\ drv_pc = "report"
    /\ drv_pc' = "done"
    /\ UNCHANGED <<vi, bi, di, rc_pc, rc_status, children, failed_benchmarks,
                   succeeded_inc, failed_inc, pb_total, cargo_calls, outcomes, m_original,
                   fileVars, argVars, notMatrix>>

\* ------------------------------------------------------------------------
\* runner/processor.rs : CargoRunner::run_command, its two reader threads
\* and the child process
\* ------------------------------------------------------------------------
Streams == {"stdout", "stderr"}

\* the statements of run_command in a wrong order: finish() ahead of the
\* second join
SupNext_FinishFirst(pc) ==
    CASE pc = "spawn_stdout" -> "spawn_stderr"
      [] pc = "spawn_stderr" -> "join_stdout"
      [] pc = "join_stdout" -> "finish"
      [] pc = "finish" -> "join_stderr"
      [] pc = "join_stderr" -> "wait"
      [] pc = "wait" -> "returned"

\* the statements of run_command, in source order
SupNext(pc) ==
    CASE pc = "spawn_stdout" -> "spawn_stderr"
      [] pc = "spawn_stderr" -> "join_stdout"
      [] pc = "join_stdout" -> "join_stderr"
      [] pc = "join_stderr" -> "finish"
      [] pc = "finish" -> "wait"
      [] pc = "wait" -> "returned"

SupIdle ==
    /\ sup_pc = "idle" /\ sup_result = "none"
    /\ readers = [s \in Streams |-> "unspawned"]
    /\ pipes = [s \in Streams |-> <<>>]
    /\ stream_open = [s \in Streams |-> FALSE]
    /\ child_status = "none"
    /\ lines_written = [s \in Streams |-> 0]
    /\ lines_forwarded = [s \in Streams |-> 0]
    /\ progress_calls = 0 /\ finish_calls = 0

\* run_command is entered with a freshly spawned child, both streams piped
SupInit ==
    /\ sup_pc = "spawn_stdout" /\ sup_result = "none"
    /\ readers = [s \in Streams |-> "unspawned"]
    /\ pipes = [s \in Streams |-> <<>>]
    /\ stream_open = [s \in Streams |-> TRUE]
    /\ child_status = "running"
    /\ lines_written = [s \in Streams |-> 0]
    /\ lines_forwarded = [s \in Streams |-> 0]
    /\ progress_calls = 0 /\ finish_calls = 0

\* the child writes a line (valid UTF-8 or not) unless the pipe is full
ChildWrite(s) ==
    /\ child_status = "running" /\ stream_open[s]
    /\ Len(pipes[s]) < PipeCap
    /\ lines_written[s] < MaxLinesPerStream
    /\ \E line \in {"utf8", "invalid"} : pipes' = [pipes EXCEPT ![s] = Append(@, line)]
    /\ lines_written' = [lines_written EXCEPT ![s] = @ + 1]
    /\ UNCHANGED <<sup_pc, sup_result, readers, stream_open, child_status,
                   lines_forwarded, progress_calls, finish_calls, notRunCommand>>

\* the child closes one of its streams
ChildClose(s) ==
    /\ child_status = "running" /\ stream_open[s]
    /\ stream_open' = [stream_open EXCEPT ![s] = FALSE]
    /\ UNCHANGED <<sup_pc, sup_result, readers, pipes, child_status, lines_written,
                   lines_forwarded, progress_calls, finish_calls, notRunCommand>>

\* the child exits, which closes what it still held open
ChildExit ==
    /\ child_status = "running"
    /\ \E st \in {"success", "failure"} : child_status' = st
    /\ stream_open' = [s \in Streams |-> FALSE]
    /\ UNCHANGED <<sup_pc, sup_result, readers, pipes, lines_written,
                   lines_forwarded, progress_calls, finish_calls, notRunCommand>>

\* thread::spawn of the reader of stream s
SupSpawn(s) ==
    /\ sup_pc = "spawn_" \o s
    /\ readers' = [readers EXCEPT ![s] = "reading"]
    /\ sup_pc' = SupNext(sup_pc)
    /\ UNCHANGED <<sup_result, pipes, stream_open, child_status, lines_written,
                   lines_forwarded, progress_calls, finish_calls, notRunCommand>>

\* lines().next(): a line, a line that is not UTF-8 (expect panics), or the
\* end of the stream once the pipe is drained and closed
ReaderRead(s) ==
    /\ readers[s] = "reading"
    /\ IF pipes[s] /= <<>>
       THEN /\ pipes' = [pipes EXCEPT ![s] = Tail(@)]
            /\ readers' = [readers EXCEPT
                             ![s] = IF Head(pipes[s]) = "utf8" THEN "got_line"
                                    ELSE "panicked"]
       ELSE /\ ~ stream_open[s]
            /\ readers' = [readers EXCEPT ![s] = "done"]
            /\ UNCHANGED pipes
    /\ UNCHANGED <<sup_pc, sup_result, stream_open, child_status, lines_written,
                   lines_forwarded, progress_calls, finish_calls, notRunCommand>>

\* processor.process_line(&line)
ReaderProcessLine(s) ==
    /\ readers[s] = "got_line"
    /\ lines_forwarded' = [lines_forwarded EXCEPT ![s] = @ + 1]
    /\ readers' = [readers EXCEPT ![s] = "processed"]
    /\ UNCHANGED <<sup_pc, sup_result, pipes, stream_open, child_status, lines_written,
                   progress_calls, finish_calls, notRunCommand>>

\* processor.progress()
ReaderProgress(s) ==
    /\ readers[s] = "processed"
    /\ progress_calls' = progress_calls + 1
    /\ readers' = [readers EXCEPT ![s] = "reading"]
    /\ UNCHANGED <<sup_pc, sup_result, pipes, stream_open, child_status, lines_written,
                   lines_forwarded, finish_calls, notRunCommand>>

\* thread.join().expect(..): returns when the thread has ended, panics when
\* the thread panicked
SupJoin(s) ==
    /\ sup_pc = "join_" \o s
    /\ readers[s] \in {"done", "panicked"}
    /\ sup_pc' = IF readers[s] = "done" THEN SupNext(sup_pc) ELSE "panicked"
    /\ UNCHANGED <<sup_result, readers, pipes, stream_open, child_status, lines_written,
                   lines_forwarded, progress_calls, finish_calls, notRunCommand>>

\* self.processor.finish()
SupFinish ==
    /\ sup_pc = "finish"
    /\ finish_calls' = finish_calls + 1
    /\ sup_pc' = SupNext(sup_pc)
    /\ UNCHANGED <<sup_result, readers, pipes, stream_open, child_status, lines_written,
                   lines_forwarded, progress_calls, notRunCommand>>

\* cargo.wait(): the exit status once the child has exited, or an io::Error
SupWait ==
    /\ sup_pc = "wait"
    /\ \/ child_status /= "running" /\ sup_result' = child_status
       \/ sup_result' = "ioerr"
    /\ sup_pc' = SupNext(sup_pc)
    /\ UNCHANGED <<readers, pipes, stream_open, child_status, lines_written,
                   lines_forwarded, progress_calls, finish_calls, notRunCommand>>

\* ------------------------------------------------------------------------
\* the matrix driver with run_command in full: every cell runs the two
\* reader threads and the supervisor above on its own child, all cells of a
\* run that is not verbose sharing one progress bar
\* ------------------------------------------------------------------------
BarIdle == pb_pos = 0

\* CargoRunner::run_bench: spawn, then run_command is entered
MbSpawn ==
    /\ drv_pc = "cell" /\ rc_pc = "featured"
    /\ \/ /\ children' = children \cup {Len(cargo_calls)}
          /\ rc_pc' = "spawned"
          /\ sup_pc' = "spawn_stdout" /\ sup_result' = "none"
          /\ readers' = [s \in Streams |-> "unspawned"]
          /\ pipes' = [s \in Streams |-> <<>>]
          /\ stream_open' = [s \in Streams |-> TRUE]
          /\ child_status' = "running"
          /\ lines_written' = [s \in Streams |-> 0]
          /\ lines_forwarded' = [s \in Streams |-> 0]
          /\ progress_calls' = 0 /\ finish_calls' = 0
          /\ UNCHANGED <<manifest, guards, outcomes, drv_pc>>
       \/ /\ Unwind("panic")
          /\ UNCHANGED <<children, supVars>>
    /\ UNCHANGED <<burn_dir, vi, bi, di, rc_status, failed_benchmarks,
                   succeeded_inc, failed_inc, pb_total, cargo_calls, m_original,
                   argVars, barVars, notMatrixBar>>

\* a finish that leaves the bar where it is
MbFinish_NoInc ==
    /\ sup_pc = "finish"
    /\ finish_calls' = finish_calls + 1
    /\ pb_pos' = pb_pos
    /\ sup_pc' = SupNext(sup_pc)
    /\ UNCHANGED <<sup_result, readers, pipes, stream_open, child_status, lines_written,
                   lines_forwarded, progress_calls, fileVars, argVars, drvVars,
                   notMatrixBar>>

\* self.processor.finish(): NiceProcessor::finish is inc_by_one on the
\* shared bar, VerboseProcessor (no bar) has nothing to advance
MbFinish ==
    /\ sup_pc = "finish"
    /\ finish_calls' = finish_calls + 1
    /\ pb_pos' = IF pb_total /= NoBar THEN pb_pos + 1 ELSE pb_pos
    /\ sup_pc' = SupNext(sup_pc)
    /\ UNCHANGED <<sup_result, readers, pipes, stream_open, child_status, lines_written,
                   lines_forwarded, progress_calls, fileVars, argVars, drvVars,
                   notMatrixBar>>

\* run_command is left: its result goes to run_cargo, or its panic unwinds
MbReturn ==
    /\ drv_pc = "cell" /\ rc_pc = "spawned"
    /\ sup_pc \in {"returned", "panicked"}
    /\ IF sup_pc = "returned"
       THEN /\ rc_status' = sup_result
            /\ children' = IF sup_result = "ioerr" THEN children
                            ELSE children \ {Len(cargo_calls)}
            /\ rc_pc' = "exited"
            /\ UNCHANGED <<manifest, guards, outcomes, drv_pc>>
       ELSE /\ Unwind("panic")
            /\ UNCHANGED <<children, rc_status>>
    /\ sup_pc' = "idle" /\ sup_result' = "none"
    /\ readers' = [s \in Streams |-> "unspawned"]
    /\ pipes' = [s \in Streams |-> <<>>]
    /\ stream_open' = [s \in Streams |-> FALSE]
    /\ child_status' = "none"
    /\ lines_written' = [s \in Streams |-> 0]
    /\ lines_forwarded' = [s \in Streams |-> 0]
    /\ progress_calls' = 0 /\ finish_calls' = 0
    /\ UNCHANGED <<burn_dir, vi, bi, di, failed_benchmarks,
                   succeeded_inc, failed_inc, pb_total, cargo_calls, m_original,
                   argVars, barVars, notMatrixBar>>

\* ------------------------------------------------------------------------
\* xtask compare.rs : run_bench, on the child, pipes and reader threads above
\* ------------------------------------------------------------------------
\* the statements of run_bench after the spawn of the child, in order
XtNext(pc) ==
    CASE pc = "spawn_stdout" -> "spawn_stderr"
      [] pc = "spawn_stderr" -> "wait"
      [] pc = "wait" -> "join_stdout"
      [] pc = "join_stdout" -> "join_stderr"
      [] pc = "join_stderr" -> "check"
      [] pc = "check" -> "returned"

\* std::thread::spawn of the reader of stream s
XtSpawn(s) ==
    /\ sup_pc = "spawn_" \o s
    /\ readers' = [readers EXCEPT ![s] = "reading"]
    /\ sup_pc' = XtNext(sup_pc)
    /\ UNCHANGED <<sup_result, pipes, stream_open, child_status, lines_written,
                   lines_forwarded, progress_calls, finish_calls, notRunCommand>>

\* println!/eprintln! of the line (and log_line for stdout), then the loop head
XtReaderPrint(s) ==
    /\ readers[s] = "got_line"
    /\ lines_forwarded' = [lines_forwarded EXCEPT ![s] = @ + 1]
    /\ readers' = [readers EXCEPT ![s] = "reading"]
    /\ UNCHANGED <<sup_pc, sup_result, pipes, stream_open, child_status, lines_written,
                   progress_calls, finish_calls, notRunCommand>>

\* let status = child.wait()?: the exit status once the child has exited, or
\* the io::Error returned to the caller at once
XtWait ==
    /\ sup_pc = "wait"
    /\ \/ child_status /= "running" /\ sup_result' = child_status
                                     /\ sup_pc' = XtNext(sup_pc)
       \/ sup_result' = "ioerr" /\ sup_pc' = "returned"
    /\ UNCHANGED <<readers, pipes, stream_open, child_status, lines_written,
                   lines_forwarded, progress_calls, finish_calls, notRunCommand>>

\* thread.join().expect(..)
XtJoin(s) ==
    /\ sup_pc = "join_" \o s
    /\ readers[s] \in {"done", "panicked"}
    /\ sup_pc' = IF readers[s] = "done" THEN XtNext(sup_pc) ELSE "panicked"
    /\ UNCHANGED <<sup_result, readers, pipes, stream_open, child_status, lines_written,
                   lines_forwarded, progress_calls, finish_calls, notRunCommand>>

\* if !status.success() { return Err(error_msg) } Ok(())
XtCheck ==
    /\ sup_pc = "check"
    /\ sup_pc' = XtNext(sup_pc)
    /\ UNCHANGED <<sup_result, readers, pipes, stream_open, child_status, lines_written,
                   lines_forwarded, progress_calls, finish_calls, notRunCommand>>

\* ------------------------------------------------------------------------
\* benchmark.rs : Benchmark::num_samples, profile, profile_full, run
\* ------------------------------------------------------------------------
DEFAULT == 10
WarmupRuns == 3

\* the decimal value of the digit string s[1..i]
RECURSIVE DecVal(_, _)
DecVal(s, i) == IF i = 0 THEN 0 ELSE 10 * DecVal(s, i - 1) + DigitVal(Char(s, i))

RECURSIVE StripZeros(_)
StripZeros(s) ==
    IF Len(s) > 1 /\ Char(s, 1) = "0" THEN StripZeros(SubSeq(s, 2, Len(s))) ELSE s

\* str::parse::<usize> on a 64-bit target: an optional '+', then one or
\* more decimal digits, no overflow; -1 stands for Err
ParseUsize(s) ==
    LET d == IF Len(s) >= 1 /\ Char(s, 1) = "+" THEN SubSeq(s, 2, Len(s)) ELSE s
        z == StripZeros(d)
    IN  IF d = "" \/ ~ AllIn(d, Digits, 1) THEN -1
        ELSE IF NumLess(U64Max, z) THEN -1
        ELSE DecVal(z, Len(z))

\* env is <<>> when BENCH_NUM_SAMPLES is not set, <<value>> when it is
num_samples(env) ==
    IF env = <<>> THEN DEFAULT
    ELSE IF ParseUsize(env[1]) = -1 THEN DEFAULT
    ELSE ParseUsize(env[1])

\* profile_full measuring without the synchronisation ahead of the start
profile_full_NoLeadingSync == <<"execute", "sync">>

\* the trait methods profile_full calls, in order
profile_full == <<"sync", "execute", "sync">>

\* the default profile
profile == profile_full

\* the closure `execute` of run: profile by the timing method, then resolve
ExecuteClosure(timing) ==
    (IF timing = "System" THEN profile_full ELSE profile) \o <<"resolve">>

TimingMethods == {"System", "Device"}

EnvInputs ==
    {<<>>, <<"">>, <<"abc">>, <<"0">>, <<"1">>, <<"2">>, <<"+3">>, <<"04">>,
     <<"-1">>, <<" 2">>, <<"+">>, <<"18446744073709551616">>}

BenchIdle ==
    /\ b_env = <<>> /\ b_timing = "System" /\ b_pc = "idle" /\ b_step = 0
    /\ b_iter = 0 /\ b_calls = <<>> /\ b_measured = <<>> /\ b_durations = <<>>

BenchInit ==
    /\ b_env \in EnvInputs /\ b_timing \in TimingMethods
    /\ b_pc = "prepare" /\ b_step = 0
    /\ b_iter = 0 /\ b_calls = <<>> /\ b_measured = <<>> /\ b_durations = <<>>

\* the loop a finished iteration continues in, or what follows the loop
AfterIteration(pc, done, env) ==
    CASE pc = "warmup" -> IF done < WarmupRuns THEN "warmup" ELSE "sleep"
      [] pc = "sample" -> IF done < num_samples(env) THEN "sample" ELSE "return"

\* let args = self.prepare()
BenchPrepare ==
    /\ b_pc = "prepare"
    /\ b_calls' = Append(b_calls, "prepare")
    /\ b_pc' = AfterIteration("warmup", 0, b_env)
    /\ b_step' = 1 /\ b_iter' = 0
    /\ UNCHANGED <<b_env, b_timing, b_measured, b_durations, notBench>>

\* self.sync() inside the closure
BenchSync ==
    /\ b_pc \in {"warmup", "sample"}
    /\ b_step <= Len(ExecuteClosure(b_timing))
    /\ ExecuteClosure(b_timing)[b_step] = "sync"
    /\ b_calls' = Append(b_calls, "sync")
    /\ b_step' = b_step + 1
    /\ UNCHANGED <<b_env, b_timing, b_pc, b_iter, b_measured, b_durations, notBench>>

\* self.execute(args) inside the closure
BenchExecute ==
    /\ b_pc \in {"warmup", "sample"}
    /\ b_step <= Len(ExecuteClosure(b_timing))
    /\ ExecuteClosure(b_timing)[b_step] = "execute"
    /\ b_calls' = Append(b_calls, "execute")
    /\ b_step' = b_step + 1
    /\ UNCHANGED <<b_env, b_timing, b_pc, b_iter, b_measured, b_durations, notBench>>

\* block_on(profile.resolve()): the closure returns the duration of the
\* execution just made (named by its ordinal); the sampling loop pushes it
BenchResolve ==
    /\ b_pc \in {"warmup", "sample"}
    /\ b_step <= Len(ExecuteClosure(b_timing))
    /\ ExecuteClosure(b_timing)[b_step] = "resolve"
    /\ b_calls' = Append(b_calls, "resolve")
    /\ b_measured' = Append(b_measured, Len(b_measured) + 1)
    /\ b_durations' = IF b_pc = "sample" THEN Append(b_durations, Len(b_measured) + 1)
                      ELSE b_durations
    /\ b_iter' = b_iter + 1
    /\ b_pc' = AfterIteration(b_pc, b_iter + 1, b_env)
    /\ b_step' = 1
    /\ UNCHANGED <<b_env, b_timing, notBench>>

\* std::thread::sleep(Duration::from_secs(1)), then the sampling loop head
BenchSleep ==
    /\ b_pc = "sleep"
    /\ b_calls' = Append(b_calls, "sleep")
    /\ b_pc' = AfterIteration("sample", 0, b_env)
    /\ b_step' = 1 /\ b_iter' = 0
    /\ UNCHANGED <<b_env, b_timing, b_measured, b_durations, notBench>>

\* BenchmarkDurations { timing_method, durations }
BenchReturn ==
    /\ b_pc = "return"
    /\ b_pc' = "done"
    /\ UNCHANGED <<b_env, b_timing, b_step, b_iter, b_calls, b_measured,
                   b_durations, notBench>>

\* ------------------------------------------------------------------------
\* runner/processor.rs : NiceProcessor (process_line, progress, finish) over
\* the RunnerProgressBar it shares under a mutex
\* ------------------------------------------------------------------------
\* format_pb_message: the glyph of the state (hammer, fire, floppy disk),
\* then "<bench> > <backend>"
format_pb_message(bench, backend, state) ==
    [icon |-> CASE state \in {"Default", "Compiling"} -> "hammer"
                [] state = "Running" -> "fire"
                [] state = "Uploading" -> "disk",
     bench |-> bench, backend |-> backend]

\* the chain with the test for "Running" ahead of the test for "Compiling"
LineState_RunningFirst(line) ==
    IF Contains(line, "Running") THEN "Running"
    ELSE IF Contains(line, "Compiling") THEN "Compiling"
    ELSE IF Contains(line, "Sharing") THEN "Uploading"
    ELSE "Default"

\* the if / else-if chain of process_line: the state of one line
LineState(line) ==
    IF Contains(line, "Compiling") THEN "Compiling"
    ELSE IF Contains(line, "Running") THEN "Running"
    ELSE IF Contains(line, "Sharing") THEN "Uploading"
    ELSE "Default"

\* RunnerProgressBar::stop_spinner, start_spinner on the spinner flag
stop_spinner(spinner) == FALSE
start_spinner(spinner) == TRUE

\* the spinner call process_line makes in the branch of the state
SpinnerAfter(state, spinner) ==
    CASE state \in {"Compiling", "Running"} -> stop_spinner(spinner)
      [] state = "Uploading" -> start_spinner(spinner)
      [] OTHER -> spinner

NoMessage == [icon |-> "none", bench |-> "", backend |-> ""]

NiceLines ==
    {"", "   Compiling burn v0.17.0", "    Finished bench [optimized]",
     "     Running benches/matmul.rs", "Sharing results", "matmul 1.2ms",
     "   Compiling Running v0.1.0", "Running: Sharing"}

NiceBenches == {"matmul", "unary"}
NiceBackends == {"ndarray", "wgpu"}

NiceIdle ==
    /\ np_bench = "" /\ np_backend = "" /\ np_line = "" /\ np_state = "Default"
    /\ np_message = NoMessage /\ np_spinner = FALSE
    /\ np_count = 0 /\ np_progress = 0 /\ np_finished = 0

\* NiceProcessor::new on a bar whose spinner may be started or stopped
NiceInit ==
    /\ np_bench \in NiceBenches /\ np_backend \in NiceBackends
    /\ np_line = "" /\ np_state = "Default"
    /\ np_message = NoMessage /\ np_spinner \in BOOLEAN
    /\ np_count = 0 /\ np_progress = 0 /\ np_finished = 0

\* NiceProcessor::process_line, the whole call made under the lock
NiceProcessLine ==
    /\ np_finished = 0
    /\ np_count < MaxNiceLines
    /\ \E line \in NiceLines :
          /\ np_line' = line
          /\ np_state' = LineState(line)
          /\ np_spinner' = SpinnerAfter(LineState(line), np_spinner)
          /\ np_message' = format_pb_message(np_bench, np_backend, LineState(line))
    /\ np_count' = np_count + 1
    /\ UNCHANGED <<np_bench, np_backend, np_progress, np_finished, notNice>>

\* NiceProcessor::progress: advance_spinner, once per line
NiceProgress ==
    /\ np_finished = 0
    /\ np_progress < np_count
    /\ np_progress' = np_progress + 1
    /\ UNCHANGED <<np_bench, np_backend, np_line, np_state, np_message, np_spinner,
                   np_count, np_finished, notNice>>

\* NiceProcessor::finish: inc_by_one
NiceFinish ==
    /\ np_finished = 0
    /\ np_progress = np_count
    /\ np_finished' = 1
    /\ UNCHANGED <<np_bench, np_backend, np_line, np_state, np_message, np_spinner,
                   np_count, np_progress, notNice>>

\* ------------------------------------------------------------------------
\* runner/processor.rs : the NiceProcessor calls of the two reader threads
\* and of the supervisor, statement by statement, on the mutex of the bar
\* ------------------------------------------------------------------------
MutexIdle == pb_mutex = "free" /\ line_state = [s \in Streams |-> "Default"]

\* process_line is entered with the line just read: self.pb.lock().unwrap()
\* blocks until the mutex is free
MxLock(s) ==
    /\ readers[s] = "got_line"
    /\ pb_mutex = "free"
    /\ pb_mutex' = s
    /\ \E line \in NiceLines : line_state' = [line_state EXCEPT ![s] = LineState(line)]
    /\ readers' = [readers EXCEPT ![s] = "locked"]
    /\ UNCHANGED <<sup_pc, sup_result, pipes, stream_open, child_status, lines_written,
                   lines_forwarded, progress_calls, finish_calls, niceVars, notReaders>>

\* a process_line whose guard is dropped after the spinner call
MxSpinner_TwoHolds(s) ==
    /\ readers[s] = "locked"
    /\ np_spinner' = SpinnerAfter(line_state[s], np_spinner)
    /\ pb_mutex' = "free"
    /\ readers' = [readers EXCEPT ![s] = "spun"]
    /\ UNCHANGED <<sup_pc, sup_result, pipes, stream_open, child_status, lines_written,
                   lines_forwarded, progress_calls, finish_calls, line_state,
                   np_bench, np_backend, np_line, np_state, np_message,
                   np_count, np_progress, np_finished, notReaders>>

\* the branch of the if / else-if chain: pb.stop_spinner() or
\* pb.start_spinner(), or neither
MxSpinner(s) ==
    /\ readers[s] = "locked"
    /\ np_spinner' = SpinnerAfter(line_state[s], np_spinner)
    /\ readers' = [readers EXCEPT ![s] = "spun"]
    /\ UNCHANGED <<sup_pc, sup_result, pipes, stream_open, child_status, lines_written,
                   lines_forwarded, progress_calls, finish_calls, mxVars,
                   np_bench, np_backend, np_line, np_state, np_message,
                   np_count, np_progress, np_finished, notReaders>>

\* pb.message(self.format_pb_message(state)); the guard is dropped as
\* process_line returns
MxMessage(s) ==
    /\ readers[s] = "spun"
    /\ np_message' = format_pb_message(np_bench, np_backend, line_state[s])
    /\ np_state' = line_state[s]
    /\ pb_mutex' = "free"
    /\ lines_forwarded' = [lines_forwarded EXCEPT ![s] = @ + 1]
    /\ readers' = [readers EXCEPT ![s] = "processed"]
    /\ UNCHANGED <<sup_pc, sup_result, pipes, stream_open, child_status, lines_written,
                   progress_calls, finish_calls, line_state,
                   np_bench, np_backend, np_line, np_spinner,
                   np_count, np_progress, np_finished, notReaders>>

\* progress: self.pb.lock().unwrap().advance_spinner(), the guard a
\* temporary of the statement
MxProgress(s) ==
    /\ readers[s] = "processed"
    /\ pb_mutex = "free"
    /\ progress_calls' = progress_calls + 1
    /\ readers' = [readers EXCEPT ![s] = "reading"]
    /\ UNCHANGED <<sup_pc, sup_result, pipes, stream_open, child_status, lines_written,
                   lines_forwarded, finish_calls, mxVars, niceVars, notReaders>>

\* finish: self.pb.lock().unwrap().inc_by_one(), called by the supervisor
MxFinish ==
    /\ sup_pc = "finish"
    /\ pb_mutex = "free"
    /\ finish_calls' = finish_calls + 1
    /\ sup_pc' = SupNext(sup_pc)
    /\ UNCHANGED <<sup_result, readers, pipes, stream_open, child_status, lines_written,
                   lines_forwarded, progress_calls, mxVars, niceVars, notReaders>>

\* ------------------------------------------------------------------------
\* runner/reports.rs : BenchmarkCollection (default, push_failed_benchmark,
\* load_records, Display) inside one orchestration run
\* ------------------------------------------------------------------------
\* the ASCII characters of the names used, in code-point order
AsciiOrder == " ,0123456789ABCDEFGHIJKLMNOPQRSTUVWXYZ_abcdefghijklmnopqrstuvwxyz"

CharRank(c) == CHOOSE i \in 1..Len(AsciiOrder) : Char(AsciiOrder, i) = c

\* Ord::cmp as -1 (Less), 0 (Equal), 1 (Greater)
NumCmp(a, b) == IF a < b THEN -1 ELSE IF a > b THEN 1 ELSE 0

\* str::cmp: lexicographic by byte, a proper prefix is less
RECURSIVE StrCmpFrom(_, _, _)
StrCmpFrom(a, b, i) ==
    IF i > Len(a) /\ i > Len(b) THEN 0
    ELSE IF i > Len(a) THEN -1
    ELSE IF i > Len(b) THEN 1
    ELSE IF Char(a, i) = Char(b, i) THEN StrCmpFrom(a, b, i + 1)
    ELSE NumCmp(CharRank(Char(a, i)), CharRank(Char(b, i)))

StrCmp(a, b) == StrCmpFrom(a, b, 1)

\* Vec<usize>::cmp: lexicographic, a proper prefix is less
RECURSIVE DimsCmp(_, _)
DimsCmp(a, b) ==
    IF a = <<>> /\ b = <<>> THEN 0
    ELSE IF a = <<>> THEN -1
    ELSE IF b = <<>> THEN 1
    ELSE IF Head(a) /= Head(b) THEN NumCmp(Head(a), Head(b))
    ELSE DimsCmp(Tail(a), Tail(b))

\* Vec<Vec<usize>>::cmp
RECURSIVE ShapesCmp(_, _)
ShapesCmp(a, b) ==
    IF a = <<>> /\ b = <<>> THEN 0
    ELSE IF a = <<>> THEN -1
    ELSE IF b = <<>> THEN 1
    ELSE IF DimsCmp(Head(a), Head(b)) /= 0 THEN DimsCmp(Head(a), Head(b))
    ELSE ShapesCmp(Tail(a), Tail(b))

\* Ordering::then_with
ThenWith(first, second) == IF first /= 0 THEN first ELSE second

\* the comparison closure with the shapes left out
RecordCmp_NoShapes(a, b) ==
    ThenWith(StrCmp(a.name, b.name), NumCmp(a.median, b.median))

\* the closure given to sort_by: name, then shapes, then median
RecordCmp(a, b) ==
    ThenWith(StrCmp(a.name, b.name),
             ThenWith(ShapesCmp(a.shapes, b.shapes), NumCmp(a.median, b.median)))

\* slice::sort_by is a stable sort: r goes ahead of the first record that
\* is greater than it
InsertRecord(sorted, r) ==
    LET G == {i \in 1..Len(sorted) : RecordCmp(sorted[i], r) > 0}
        k == IF G = {} THEN Len(sorted) + 1 ELSE CHOOSE i \in G : \A j \in G : i <= j
    IN  SubSeq(sorted, 1, k - 1) \o <<r>> \o SubSeq(sorted, k, Len(sorted))

RECURSIVE SortFrom(_, _, _)
SortFrom(records, i, sorted) ==
    IF i > Len(records) THEN sorted
    ELSE SortFrom(records, i + 1, InsertRecord(sorted, records[i]))

SortRecords(records) == SortFrom(records, 1, <<>>)

\* the rows of the table, by the cells that tell them apart; Ticked is a
\* label set between two backticks
Ticked(label) == [ticked |-> label]
SeparatorRow == [kind |-> "separator"]
SuccessRow(r) ==
    [kind |-> "success", name |-> r.name, shapes |-> r.shapes,
     backend |-> Ticked(r.backend), median |-> r.median]
FailedRow(f) ==
    [kind |-> "failed", name |-> f.bench, backend |-> Ticked(f.backend)]

\* the loop over the sorted records: a separator row when the (name,
\* shapes) group changes and a record has been shown before
RECURSIVE SuccessRows(_, _, _, _)
SuccessRows(records, i, prev_benchmark, prev_shapes) ==
    IF i > Len(records) THEN <<>>
    ELSE LET r == records[i]
             changed == prev_benchmark /= r.name \/ prev_shapes /= r.shapes
         IN  (IF changed /\ prev_benchmark /= "" THEN <<SeparatorRow>> ELSE <<>>)
             \o <<SuccessRow(r)>>
             \o SuccessRows(records, i + 1, r.name, r.shapes)

\* the loop over failed_benchmarks
FailedRows(failed) == [i \in 1..Len(failed) |-> FailedRow(failed[i])]

\* Display for BenchmarkCollection
CollectionFmt(records, failed) ==
    SuccessRows(SortRecords(records), 1, "", <<>>) \o FailedRows(failed)

\* the record files children can write: path i holds RecordPool[i]
RecordPool ==
    <<[name |-> "matmul", shapes |-> <<<<2, 3>>, <<3, 2>>>>, median |-> 500,
       backend |-> "ndarray"],
      [name |-> "matmul", shapes |-> <<<<2, 3>>>>, median |-> 900,
       backend |-> "ndarray"],
      [name |-> "binary", shapes |-> <<<<10>>>>, median |-> 700, backend |-> "wgpu"],
      [name |-> "matmul", shapes |-> <<<<2, 3>>, <<3, 2>>>>, median |-> 200,
       backend |-> "wgpu"],
      [name |-> "Binary", shapes |-> <<>>, median |-> 700, backend |-> "ndarray"],
      [name |-> "", shapes |-> <<<<4>>>>, median |-> 300, backend |-> "ndarray"]>>

RecordPaths == 1..Len(RecordPool)

\* what an earlier run left behind: no log, an empty log, a log of paths
StaleLogs ==
    {[exists |-> FALSE, lines |-> <<>>], [exists |-> TRUE, lines |-> <<>>],
     [exists |-> TRUE, lines |-> <<1>>], [exists |-> TRUE, lines |-> <<4, 2>>]}

\* the backend labels of the cells of a run, in loop order
CellLists == {<<"ndarray">>, <<"ndarray", "wgpu">>, <<"wgpu", "wgpu">>}

ReportBenches == <<"matmul", "binary">>

\* the exit codes a child ends with; 101 is the code of a Rust panic
ExitCodes == {0, 1, 101}

\* ExitStatus::success
ExitSuccess(code) == code = 0

Range(seq) == {seq[i] : i \in 1..Len(seq)}

RepIdle ==
    /\ rp_pc = "idle" /\ rp_cells = <<>> /\ rp_cell = 0 /\ rp_cell_logged = 0
    /\ rp_outcomes = <<>> /\ rp_log_exists = FALSE /\ rp_log = <<>>
    /\ rp_files = {} /\ rp_logged = <<>>
    /\ rp_failed = <<>> /\ rp_records = <<>> /\ rp_rows = <<>>

RepInit ==
    /\ rp_pc = "start" /\ rp_cells \in CellLists /\ rp_cell = 0 /\ rp_cell_logged = 0
    /\ rp_outcomes = <<>>
    /\ \E stale \in StaleLogs :
          /\ rp_log_exists = stale.exists
          /\ rp_log = stale.lines
          /\ rp_files = Range(stale.lines)
    /\ rp_logged = <<>>
    /\ rp_failed = <<>> /\ rp_records = <<>> /\ rp_rows = <<>>

\* fs::remove_file that leaves the file in place
remove_file_Keeps(exists, lines) == [exists |-> exists, lines |-> lines]

\* fs::remove_file(results_file).ok()
remove_file(exists, lines) == [exists |-> FALSE, lines |-> <<>>]

\* BenchmarkCollection::default, first statement of the matrix driver
RepDefault ==
    /\ rp_pc = "start"
    /\ rp_log_exists' = remove_file(rp_log_exists, rp_log).exists
    /\ rp_log' = remove_file(rp_log_exists, rp_log).lines
    /\ rp_failed' = <<>> /\ rp_records' = <<>>
    /\ rp_cell' = 1 /\ rp_cell_logged' = 0
    /\ rp_pc' = IF Len(rp_cells) >= 1 THEN "cell" ELSE "load"
    /\ UNCHANGED <<rp_cells, rp_outcomes, rp_files, rp_logged, rp_rows, notReport>>

\* the child of the current cell saves a record: the JSON file is written
\* and its path appended to the results log
RepChildSave ==
    /\ rp_pc = "cell"
    /\ Len(rp_logged) < MaxLogged
    /\ \E p \in RecordPaths \ Range(rp_logged) :
          /\ rp_files' = rp_files \cup {p}
          /\ rp_log' = Append(rp_log, p)
          /\ rp_logged' = Append(rp_logged, p)
    /\ rp_log_exists' = TRUE
    /\ rp_cell_logged' = rp_cell_logged + 1
    /\ UNCHANGED <<rp_pc, rp_cells, rp_cell, rp_outcomes, rp_failed, rp_records,
                   rp_rows, notReport>>

\* the child exits and the loop body ends: a FailedBenchmark is pushed for
\* an exit status that is not success
RepCellEnds ==
    /\ rp_pc = "cell"
    /\ \E code \in ExitCodes :
          /\ rp_outcomes' = Append(rp_outcomes,
                [backend |-> rp_cells[rp_cell], code |-> code, logged |-> rp_cell_logged])
          /\ rp_failed' = IF ExitSuccess(code) THEN rp_failed
                          ELSE Append(rp_failed, [bench |-> Join(ReportBenches),
                                                  backend |-> rp_cells[rp_cell]])
    /\ rp_cell' = rp_cell + 1
    /\ rp_cell_logged' = 0
    /\ rp_pc' = IF rp_cell < Len(rp_cells) THEN "cell" ELSE "load"
    /\ UNCHANGED <<rp_cells, rp_log_exists, rp_log, rp_files, rp_logged, rp_records,
                   rp_rows, notReport>>

\* the records of the log lines whose file can be opened, in log order
RECURSIVE LoadFrom(_, _, _)
LoadFrom(lines, files, i) ==
    IF i > Len(lines) THEN <<>>
    ELSE (IF lines[i] \in files THEN <<RecordPool[lines[i]]>> ELSE <<>>)
         \o LoadFrom(lines, files, i + 1)

\* BenchmarkCollection::load_records
RepLoadRecords ==
    /\ rp_pc = "load"
    /\ rp_records' = IF rp_log_exists
                     THEN rp_records \o LoadFrom(rp_log, rp_files, 1)
                     ELSE rp_records
    /\ rp_pc' = "render"
    /\ UNCHANGED <<rp_cells, rp_cell, rp_cell_logged, rp_outcomes, rp_log_exists, rp_log,
                   rp_files, rp_logged, rp_failed, rp_rows, notReport>>

\* the table is formatted and printed
RepRender ==
    /\ rp_pc = "render"
    /\ rp_rows' = CollectionFmt(rp_records, rp_failed)
    /\ rp_pc' = "rendered"
    /\ UNCHANGED <<rp_cells, rp_cell, rp_cell_logged, rp_outcomes, rp_log_exists, rp_log,
                   rp_files, rp_logged, rp_failed, rp_records, notReport>>

\* ------------------------------------------------------------------------
\* runner/base.rs : run_cargo up to the argument vector: the patch and the
\* features string of one cell
\* ------------------------------------------------------------------------
CrateName == "backend-comparison"

\* the [[bench]] array of the crate manifest, as get_required_features
\* parses it
BenchArray ==
    <<[name |-> "matmul", required |-> <<"distributed">>],
      [name |-> "binary", required |-> <<>>],
      [name |-> "matmul", required |-> <<"never-reached">>]>>

\* get_required_features: the required-features of the first [[bench]] entry
\* named target_bench, none when there is no such entry
get_required_features(bench_array, target_bench) ==
    LET M == {i \in 1..Len(bench_array) : bench_array[i].name = target_bench}
    IN  IF M = {} THEN <<>>
        ELSE bench_array[CHOOSE i \in M : \A j \in M : i <= j].required

\* for bench in benches { for req_feature in .. { features += prefix + req } }
RECURSIVE RequiredFeatures(_, _, _)
RequiredFeatures(benches, i, prefix) ==
    IF i > Len(benches) THEN ""
    ELSE LET req == get_required_features(BenchArray, benches[i])
             one == IF req = <<>> THEN ""
                    ELSE prefix \o req[1]
                         \o (IF Len(req) > 1 THEN prefix \o req[2] ELSE "")
         IN  one \o RequiredFeatures(benches, i + 1, prefix)

\* the marker run_cargo appends, by the leading characters of the version
LegacyMarker(ver) ==
    IF StartsWith(ver, "0.16") THEN ",legacy-v16"
    ELSE IF StartsWith(ver, "0.17") THEN ",legacy-v17"
    ELSE ""

\* the features string of a cell
FeatureString(benches, backend, dtype, ver) ==
    CrateName \o "/" \o backend \o "," \o CrateName \o "/" \o dtype
      \o RequiredFeatures(benches, 1, ",")
      \o LegacyMarker(ver)
      \o RequiredFeatures(benches, 1, "," \o CrateName \o "/")

LegacyVersionInputs ==
    {"0.15.0", "0.16.0", "0.16.1", "0.16.5", "0.17.0-rc.1", "0.17.0", "0.17.3",
     "0.18.0", "0.160.0", "1.0.0", "0.16", "main", "7f9a2b1", "local",
     "PR#12_7f9a2b1"}

LegacyBenchLists == {<<"all">>, <<"matmul">>, <<"binary", "matmul">>}

\* a crate manifest declaring burn itself, with every alias of the
\* translation table in its current spelling
AliasLines ==
    "[features]\n"
      \o LegacyRenames[1][1] \o "\n" \o LegacyRenames[2][1] \o "\n"
      \o LegacyRenames[4][1] \o "\n" \o LegacyRenames[6][1] \o "\n"

AliasManifest == "[dependencies]\nburn = { version = \"0.18.0\" }\n" \o AliasLines

\* the same aliases in a crate manifest that inherits burn from the workspace
AliasInheritingManifest == "[dependencies]\nburn = { workspace = true }\n" \o AliasLines

LegacyIdle ==
    /\ lg_version = "" /\ lg_benches = <<>> /\ lg_backend = "" /\ lg_dtype = ""
    /\ lg_files = [benches |-> "", workspace |-> ""]
    /\ lg_features = "" /\ lg_pc = "idle"

LegacyInit ==
    /\ lg_version \in LegacyVersionInputs
    /\ lg_benches \in LegacyBenchLists
    /\ lg_backend \in {"ndarray", "cuda"}
    /\ lg_dtype \in {"f32", "f16"}
    /\ lg_files \in {[benches |-> b, workspace |-> WorkspaceManifest] :
                        b \in {AliasManifest, AliasInheritingManifest}}
    /\ lg_features = "" /\ lg_pc = "entered"

\* Dependency::new(get_version(version)).patch(..).unwrap()
LegacyPatch ==
    /\ lg_pc = "entered"
    /\ \E f \in IoOutcomes :
         LET res == DependencyPatch(DependencyNew(get_version(lg_version)), lg_files,
                                    "../burn/", f.io, f.torn)
         IN  /\ lg_files' = res.files
             /\ lg_pc' = IF res.ok THEN "patched" ELSE "panicked"
    /\ UNCHANGED <<lg_version, lg_benches, lg_backend, lg_dtype, lg_features, notLegacy>>

\* the features string is put together
LegacyFeatures ==
    /\ lg_pc = "patched"
    /\ lg_features' = FeatureString(lg_benches, lg_backend, lg_dtype, lg_version)
    /\ lg_pc' = "featured"
    /\ UNCHANGED <<lg_version, lg_benches, lg_backend, lg_dtype, lg_files, notLegacy>>

\* ------------------------------------------------------------------------
\* runner/auth/base.rs: the bot token, the token cache, get_tokens_with_verifier
\* ------------------------------------------------------------------------

\* Option<T> is a sequence of at most one value
Nothing == <<>>
Just(x) == <<x>>

\* struct Tokens
Tokens(access, refresh) == [access_token |-> access, refresh_token |-> refresh]

\* the cache file does not exist
NoFile == [exists |-> FALSE]

\* the cache file with its text
FileOf(text) == [exists |-> TRUE, text |-> text]

\* serde_json's string escapes for the quote and the backslash
EscapeFrom(s, i) ==
    LET q == FindFrom(s, "\"", i)
        b == FindFrom(s, "\\", i)
        k == IF q = 0 THEN b ELSE IF b = 0 THEN q ELSE Min(q, b)
    IN  IF k = 0 THEN [done |-> TRUE, text |-> SubSeq(s, i, Len(s)), next |-> 0]
        ELSE [done |-> FALSE, text |-> SubSeq(s, i, k - 1) \o "\\" \o SubSeq(s, k, k),
              next |-> k + 1]

RECURSIVE JsonEscape(_, _)
JsonEscape(s, i) ==
    LET e == EscapeFrom(s, i)
    IN  IF e.done THEN e.text ELSE e.text \o JsonEscape(s, e.next)

\* a JSON string literal
JsonString(s) == "\"" \o JsonEscape(s, 1) \o "\""

\* Option<String> as JSON
JsonOptString(o) == IF o = Nothing THEN "null" ELSE JsonString(o[1])

\* a writer that leaves the refresh token out
TokensToJson_NoRefresh(t) ==
    "{\n  \"access_token\": " \o JsonString(t.access_token) \o "\n}"

\* serde_json::to_writer_pretty(file, &tokens)
TokensToJson(t) ==
    "{\n  \"access_token\": " \o JsonString(t.access_token)
        \o ",\n  \"refresh_token\": " \o JsonOptString(t.refresh_token) \o "\n}"

\* one character of a text, "" past its end
CharAt(s, i) == IF i \in 1..Len(s) THEN SubSeq(s, i, i) ELSE ""

JsonWhitespace == {" ", "\n", "\t", "\r"}

\* the parser's position after the whitespace at i
RECURSIVE SkipWs(_, _)
SkipWs(s, i) == IF CharAt(s, i) \in JsonWhitespace THEN SkipWs(s, i + 1) ELSE i

JsonFail == [ok |-> FALSE, kind |-> "", val |-> "", next |-> 0]

\* a string literal's characters from j on (the opening quote is behind j):
\* up to the closing quote, escapes decoded, raw control characters refused
RECURSIVE ScanString(_, _, _)
ScanString(s, j, acc) ==
    LET c == CharAt(s, j)
        e == CharAt(s, j + 1)
    IN  IF c = "" \/ c \in {"\n", "\t", "\r"} THEN JsonFail
        ELSE IF c = "\"" THEN [ok |-> TRUE, kind |-> "string", val |-> acc, next |-> j + 1]
        ELSE IF c = "\\"
             THEN IF e \in {"\"", "\\", "/"} THEN ScanString(s, j + 2, acc \o e)
                  ELSE IF e = "n" THEN ScanString(s, j + 2, acc \o "\n")
                  ELSE IF e = "t" THEN ScanString(s, j + 2, acc \o "\t")
                  ELSE IF e = "r" THEN ScanString(s, j + 2, acc \o "\r")
                  ELSE JsonFail
        ELSE ScanString(s, j + 1, acc \o c)

\* a JSON value at i: a string or null (the texts drawn hold no other kind,
\* which is an error for both fields of Tokens)
ParseValue(s, i) ==
    IF CharAt(s, i) = "\"" THEN ScanString(s, i + 1, "")
    ELSE IF StartsAt(s, "null", i)
         THEN [ok |-> TRUE, kind |-> "null", val |-> "", next |-> i + 4]
    ELSE JsonFail

\* the visitor of #[derive(Deserialize)] for Tokens: one member stored
\* (a field given twice is an error, access_token must be a string, a key
\* that is not a field is ignored)
StoreMember(acc, key, v) ==
    IF key = "access_token"
    THEN IF acc.access /= Nothing \/ v.kind /= "string" THEN [acc EXCEPT !.ok = FALSE]
         ELSE [acc EXCEPT !.access = Just(v.val)]
    ELSE IF key = "refresh_token"
    THEN IF acc.refresh /= Nothing THEN [acc EXCEPT !.ok = FALSE]
         ELSE [acc EXCEPT !.refresh =
                 Just(IF v.kind = "null" THEN Nothing ELSE Just(v.val))]
    ELSE acc

\* the members of the object from i on (i is at a key), up to the closing brace
RECURSIVE ParseMembers(_, _, _)
ParseMembers(s, i, acc) ==
    IF CharAt(s, i) /= "\"" THEN [acc EXCEPT !.ok = FALSE]
    ELSE LET k == ScanString(s, i + 1, "")
             colon == SkipWs(s, k.next)
             v == ParseValue(s, SkipWs(s, colon + 1))
             after == SkipWs(s, v.next)
             stored == StoreMember(acc, k.val, v)
         IN  IF ~ k.ok \/ CharAt(s, colon) /= ":" THEN [acc EXCEPT !.ok = FALSE]
             ELSE IF ~ v.ok \/ ~ stored.ok THEN [acc EXCEPT !.ok = FALSE]
             ELSE IF CharAt(s, after) = "," THEN ParseMembers(s, SkipWs(s, after + 1), stored)
             ELSE IF CharAt(s, after) = "}" THEN [stored EXCEPT !.next = after + 1]
             ELSE [acc EXCEPT !.ok = FALSE]

\* serde_json::from_reader::<Tokens>(file).ok(): an object with access_token
\* (a missing refresh_token is None), nothing but whitespace after it
TokensFromJson(text) ==
    LET start == SkipWs(text, 1)
        empty == [ok |-> TRUE, access |-> Nothing, refresh |-> Nothing, next |-> 0]
        first == SkipWs(text, start + 1)
        obj == IF CharAt(text, start) /= "{" THEN [empty EXCEPT !.ok = FALSE]
               ELSE IF CharAt(text, first) = "}" THEN [empty EXCEPT !.next = first + 1]
               ELSE ParseMembers(text, first, empty)
    IN  IF ~ obj.ok \/ obj.access = Nothing THEN Nothing
        ELSE IF SkipWs(text, obj.next) /= Len(text) + 1 THEN Nothing
        ELSE Just(Tokens(obj.access[1],
                         IF obj.refresh = Nothing THEN Nothing ELSE obj.refresh[1]))

\* get_bot_token: std::env::var(..).ok()
get_bot_token(env) == env

\* get_tokens_from_cache: File::open(path).ok()?, from_reader(file).ok()?
get_tokens_from_cache(file, open_ok) ==
    IF ~ file.exists \/ ~ open_ok THEN Nothing ELSE TokensFromJson(file.text)

\* how far save_tokens gets: each step but the last println can panic
SaveOutcomes == {"ok", "create_dir_all", "File::create", "to_writer_pretty", "set_permissions"}

\* a save that appends to the cache file instead of truncating it
save_tokens_Appends(file, tokens, io) ==
    IF io \in {"create_dir_all", "File::create"}
    THEN [file |-> file, panicked |-> TRUE]
    ELSE IF io = "to_writer_pretty"
    THEN [file |-> FileOf(""), panicked |-> TRUE]
    ELSE [file |-> FileOf((IF file.exists THEN file.text ELSE "") \o TokensToJson(tokens)),
          panicked |-> io /= "ok"]

\* save_tokens: File::create truncates, to_writer_pretty writes the text, the
\* permissions are lowered; a failing write leaves the truncated file behind
save_tokens(file, tokens, io) ==
    IF io \in {"create_dir_all", "File::create"}
    THEN [file |-> file, panicked |-> TRUE]
    ELSE IF io = "to_writer_pretty"
    THEN [file |-> FileOf(""), panicked |-> TRUE]
    ELSE [file |-> FileOf(TokensToJson(tokens)), panicked |-> io /= "ok"]

\* what the refresh endpoint does: the request fails, the body is not a
\* Tokens object, or it carries new tokens
RefreshOutcomes ==
    {[kind |-> "send_err", tokens |-> Tokens("", Nothing)],
     [kind |-> "bad_body", tokens |-> Tokens("", Nothing)],
     [kind |-> "tokens", tokens |-> Tokens("ghu_new", Just("ghr_new"))]}

\* refresh_tokens: tokens without a refresh token come back as they are
refresh_tokens(tokens, outcome) ==
    IF tokens.refresh_token = Nothing THEN [result |-> Just(tokens), request |-> FALSE]
    ELSE [result |-> IF outcome.kind = "tokens" THEN Just(outcome.tokens) ELSE Nothing,
          request |-> TRUE]

\* what the device flow does: start fails, a field of the flow is missing
\* (the unwraps of auth panic), the poll fails, or the poll yields credentials
AuthOutcomes == {"start_err", "unwrap_none", "poll_err", "creds"}

\* the credentials a successful poll yields
PolledTokens == Tokens("ghu_device", Just("ghr_device"))

\* auth: the interactive device flow, saving the tokens it obtains
auth(file, outcome, io) ==
    LET saved == save_tokens(file, PolledTokens, io)
    IN  IF outcome \in {"start_err", "poll_err"}
        THEN [result |-> Nothing, file |-> file, panicked |-> FALSE,
              trace |-> <<"auth">>, saved |-> Nothing]
        ELSE IF outcome = "unwrap_none"
        THEN [result |-> Nothing, file |-> file, panicked |-> TRUE,
              trace |-> <<"auth">>, saved |-> Nothing]
        ELSE [result |-> IF saved.panicked THEN Nothing ELSE Just(PolledTokens),
              file |-> saved.file, panicked |-> saved.panicked,
              trace |-> <<"auth", "save_tokens">>,
              saved |-> IF saved.panicked THEN Nothing ELSE Just(PolledTokens)]

\* the trace of a callee behind the trace of its caller
After(prefix, r) == [r EXCEPT !.trace = prefix \o @]

\* the |new_tokens| closure: save_tokens(&new_tokens); Some(new_tokens)
with_new_tokens(new_tokens, saved) ==
    [result |-> IF saved.panicked THEN Nothing ELSE Just(new_tokens),
     file |-> saved.file, panicked |-> saved.panicked,
     trace |-> <<"save_tokens">>,
     saved |-> IF saved.panicked THEN Nothing ELSE Just(new_tokens)]

\* a refresh whose new tokens are returned without being saved
with_refreshed_NoSave(file, refreshed, flow, io) ==
    IF refreshed.result = Nothing THEN auth(file, flow, io)
    ELSE [result |-> refreshed.result, file |-> file, panicked |-> FALSE,
          trace |-> <<>>, saved |-> Nothing]

\* refresh_tokens(&tokens).map_or_else(auth, |new_tokens| ..)
with_refreshed(file, refreshed, flow, io) ==
    IF refreshed.result = Nothing THEN auth(file, flow, io)
    ELSE with_new_tokens(refreshed.result[1],
                         save_tokens(file, refreshed.result[1], io))

\* the |tokens| closure: the verified tokens, else the refreshed ones
with_cached_tokens(file, tokens, verified, refresh, flow, io) ==
    IF verified
    THEN [result |-> Just(tokens), file |-> file, panicked |-> FALSE,
          trace |-> <<"verifier">>, saved |-> Nothing]
    ELSE After(<<"verifier", "refresh_tokens">>,
               with_refreshed(file, refresh_tokens(tokens, refresh), flow, io))

\* get_tokens_from_cache().map_or_else(auth, |tokens| ..)
with_cache(file, cached, verified, refresh, flow, io) ==
    IF cached = Nothing THEN auth(file, flow, io)
    ELSE with_cached_tokens(file, cached[1], verified, refresh, flow, io)

\* a get_tokens_with_verifier that looks at the cache before the bot token
get_tokens_with_verifier_CacheFirst(env, file, cached, verified, refresh, flow, io) ==
    IF cached /= Nothing
    THEN After(<<"get_tokens_from_cache">>,
               with_cache(file, cached, verified, refresh, flow, io))
    ELSE [result |-> IF env = Nothing THEN Nothing ELSE Just(Tokens(env[1], Nothing)),
          file |-> file, panicked |-> FALSE,
          trace |-> <<"get_tokens_from_cache", "get_bot_token">>, saved |-> Nothing]

\* get_tokens_with_verifier: the bot token, else the verified cached tokens,
\* else the refreshed (and saved) tokens, else auth; cached is what
\* get_tokens_from_cache returns when it is called
get_tokens_with_verifier(env, file, cached, verified, refresh, flow, io) ==
    IF get_bot_token(env) /= Nothing
    THEN [result |-> Just(Tokens(get_bot_token(env)[1], Nothing)), file |-> file,
          panicked |-> FALSE, trace |-> <<"get_bot_token">>, saved |-> Nothing]
    ELSE After(<<"get_bot_token", "get_tokens_from_cache">>,
               with_cache(file, cached, verified, refresh, flow, io))

\* the tokens handed to save_tokens: device-flow tokens, a PAT without a
\* refresh token, a token with characters JSON has to escape
TokenPool ==
    {Tokens("ghu_old", Just("ghr_old")),
     Tokens("github_pat_1", Nothing),
     Tokens("ghu_\"q\"\\", Just(""))}

\* the values of GITHUB_BOT_TOKEN
BotTokenEnvs == {Nothing, Just("github_pat_bot"), Just("")}

\* the cache file before the run: missing, empty, not JSON, a saved file, a
\* hand-written file, a file cut short, objects that are not Tokens
CacheFiles ==
    {NoFile,
     FileOf(""),
     FileOf("token"),
     FileOf(TokensToJson(Tokens("ghu_old", Just("ghr_old")))),
     FileOf(" {\"refresh_token\":null, \"user\":\"me\",\n\t\"access_token\":\"github_pat_1\"}\n"),
     FileOf("{\"access_token\": \"ghu_x\"}"),
     FileOf("{\n  \"access_token\": \"ghu_old\",\n  \"refresh_to"),
     FileOf("{\"refresh_token\": \"ghr_old\"}"),
     FileOf("{\"access_token\": null, \"refresh_token\": \"ghr_old\"}"),
     FileOf("{\"access_token\": \"a\", \"access_token\": \"b\"}"),
     FileOf("{\"access_token\": \"ghu_old\"} x")}

\* File::open on the cache file: a file this process saved (mode 0600, owned
\* by the user) opens, a file found on disk may refuse
OpenOutcomes(saved) == IF saved = <<>> THEN BOOLEAN ELSE {TRUE}

AuthIdle ==
    /\ au_env = Nothing /\ au_file = NoFile /\ au_pc = "idle"
    /\ au_result = Nothing /\ au_calls = <<>> /\ au_saved = <<>>

AuthInit ==
    /\ au_env \in BotTokenEnvs
    /\ au_file \in CacheFiles
    /\ au_pc = "ready"
    /\ au_result = Nothing /\ au_calls = <<>> /\ au_saved = <<>>

\* a call of save_tokens
AuthSaveTokens ==
    /\ au_pc = "ready" /\ Len(au_calls) < MaxAuthCalls
    /\ \E tokens \in TokenPool, io \in SaveOutcomes :
         LET r == save_tokens(au_file, tokens, io)
         IN  /\ au_file' = r.file
             /\ au_pc' = IF r.panicked THEN "panicked" ELSE "ready"
             /\ au_saved' = IF r.panicked THEN au_saved ELSE Append(au_saved, tokens)
             /\ au_calls' = Append(au_calls, [op |-> "save_tokens", trace |-> <<>>])
    /\ UNCHANGED <<au_env, au_result, notAuth>>

\* a call of get_tokens_from_cache
AuthGetTokensFromCache ==
    /\ au_pc = "ready" /\ Len(au_calls) < MaxAuthCalls
    /\ \E open_ok \in OpenOutcomes(au_saved) :
         /\ au_result' = get_tokens_from_cache(au_file, open_ok)
         /\ au_calls' = Append(au_calls,
                [op |-> "get_tokens_from_cache",
                 trace |-> IF open_ok THEN <<"open">> ELSE <<"open_err">>])
    /\ UNCHANGED <<au_env, au_file, au_pc, au_saved, notAuth>>

\* a call of get_tokens_with_verifier
AuthGetTokens ==
    /\ au_pc = "ready" /\ Len(au_calls) < MaxAuthCalls
    /\ \E open_ok \in OpenOutcomes(au_saved), verified \in BOOLEAN,
          refresh \in RefreshOutcomes, flow \in AuthOutcomes, io \in SaveOutcomes :
         \E cached \in {get_tokens_from_cache(au_file, open_ok)} :
           \E r \in {get_tokens_with_verifier(au_env, au_file, cached, verified,
                                              refresh, flow, io)} :
             /\ au_result' = r.result
             /\ au_file' = r.file
             /\ au_pc' = IF r.panicked THEN "panicked" ELSE "ready"
             /\ au_saved' = IF r.saved = Nothing THEN au_saved
                            ELSE Append(au_saved, r.saved[1])
             /\ au_calls' = Append(au_calls,
                    [op |-> "get_tokens_with_verifier", trace |-> r.trace])
    /\ UNCHANGED <<au_env, notAuth>>

\* ------------------------------------------------------------------------
\* runner/workflow.rs: the 'started' and 'complete' webhooks
\* ------------------------------------------------------------------------

\* serde_json::Value, every kind with the same fields
JsonNull == [kind |-> "null", text |-> "", fields |-> <<>>]
JsonStr(s) == [kind |-> "string", text |-> s, fields |-> <<>>]
JsonArray == [kind |-> "array", text |-> "", fields |-> <<>>]

\* a number: PosInt (u64), NegInt (i64) or Float, with its digits
JsonNum(repr, digits) == [kind |-> repr, text |-> digits, fields |-> <<>>]

\* an object: its members in order, each a key and a value
JsonObject(members) == [kind |-> "object", text |-> "", fields |-> members]
Member(key, value) == [key |-> key, value |-> value]

\* Value's Index<&str>: the member of an object, Null for anything else
RECURSIVE MemberAt(_, _, _)
MemberAt(members, key, i) ==
    IF i > Len(members) THEN JsonNull
    ELSE IF members[i].key = key THEN members[i].value
    ELSE MemberAt(members, key, i + 1)

ValueIndex(json, key) ==
    IF json.kind = "object" THEN MemberAt(json.fields, key, 1) ELSE JsonNull

\* i64::MAX in digits
I64Max == "9223372036854775807"

\* Value::as_i64: a NegInt, or a PosInt that fits an i64
as_i64(v) ==
    IF v.kind = "NegInt" THEN Just(v)
    ELSE IF v.kind = "PosInt"
         THEN IF Len(v.text) < Len(I64Max)
                 \/ (Len(v.text) = Len(I64Max) /\ StrCmp(v.text, I64Max) <= 0)
              THEN Just(v) ELSE Nothing
    ELSE Nothing

\* Value's IndexMut<&str> followed by an assignment: an object gets or
\* replaces the member, Null becomes an object, anything else panics
RECURSIVE ReplaceMember(_, _, _, _)
ReplaceMember(members, key, value, i) ==
    IF i > Len(members) THEN Append(members, Member(key, value))
    ELSE IF members[i].key = key THEN [members EXCEPT ![i] = Member(key, value)]
    ELSE ReplaceMember(members, key, value, i + 1)

ValueSet(json, key, value) ==
    IF json.kind = "object"
    THEN [ok |-> TRUE, json |-> JsonObject(ReplaceMember(json.fields, key, value, 1))]
    ELSE IF json.kind = "null"
    THEN [ok |-> TRUE, json |-> JsonObject(<<Member(key, value)>>)]
    ELSE [ok |-> FALSE, json |-> json]

\* a get_pr_number that reads a missing or unusable pr_number as 0
get_pr_number_Zero(json) ==
    LET n == as_i64(ValueIndex(json, "pr_number"))
    IN  IF n /= Nothing THEN [pr_number |-> n, log |-> <<>>]
        ELSE [pr_number |-> Just(JsonNum("PosInt", "0")), log |-> <<>>]

\* get_pr_number
get_pr_number(json) ==
    LET n == as_i64(ValueIndex(json, "pr_number"))
    IN  IF n /= Nothing THEN [pr_number |-> n, log |-> <<>>]
        ELSE [pr_number |-> Nothing, log |-> <<"No valid 'pr_number' found. Skipping webhook.">>]

\* the state of the file WEBHOOK_INPUTS_FILE names
MissingFile == [state |-> "missing", json |-> JsonNull]
UnparsableFile == [state |-> "unparsable", json |-> JsonNull]
JsonFile(json) == [state |-> "json", json |-> json]

\* read_inputs: File::open, serde_json::from_reader
read_inputs(file) ==
    IF file.state = "missing"
    THEN [json |-> Nothing, log |-> <<"Cannot open inputs file">>]
    ELSE IF file.state = "unparsable"
    THEN [json |-> Nothing, log |-> <<"Error reading JSON">>]
    ELSE [json |-> Just(file.json), log |-> <<>>]

\* load_inputs
load_inputs(file) ==
    LET read == read_inputs(file)
        pr == get_pr_number(read.json[1])
    IN  IF read.json = Nothing THEN [inputs |-> Nothing, log |-> read.log]
        ELSE IF pr.pr_number = Nothing THEN [inputs |-> Nothing, log |-> pr.log]
        ELSE [inputs |-> Just([json |-> read.json[1], pr_number |-> pr.pr_number[1]]),
              log |-> <<>>]

\* a table is a sequence of pieces, an ANSI colour sequence or plain text
Ansi(code) == [ansi |-> TRUE, text |-> code]
Plain(text) == [ansi |-> FALSE, text |-> text]

\* ansi_re.replace_all(table, "")
RECURSIVE StripAnsi(_, _)
StripAnsi(pieces, i) ==
    IF i > Len(pieces) THEN ""
    ELSE (IF pieces[i].ansi THEN "" ELSE pieces[i].text) \o StripAnsi(pieces, i + 1)

\* clean_output: the regex is a constant that compiles
clean_output(table, share_link) ==
    LET cleaned == <<Member("table", JsonStr(StripAnsi(table, 1)))>>
    IN  Just(IF share_link = Nothing THEN cleaned
             ELSE Append(cleaned, Member("share_link", JsonStr(share_link[1]))))

\* serialize_result: three members set, then serde_json::to_vec
serialize_result(json, pr_number, table, action) ==
    LET a == ValueSet(json, "results", JsonObject(table))
        b == ValueSet(a.json, "action", JsonStr(action))
        c == ValueSet(b.json, "pr_number", pr_number)
    IN  [panicked |-> ~ (a.ok /\ b.ok /\ c.ok), payload |-> Just(c.json)]

\* build_req_body: the signature of the payload under the secret
build_req_body(payload, secret, uuid) ==
    IF secret = Nothing THEN Nothing
    ELSE Just([signature |-> [hmac_of |-> payload, key |-> secret[1]],
               delivery_id |-> uuid])

\* what the HTTP client reports: a transport error or a status
TransportOutcomes ==
    {[kind |-> "err", status |-> 0, body |-> FALSE],
     [kind |-> "resp", status |-> 200, body |-> TRUE],
     [kind |-> "resp", status |-> 204, body |-> TRUE],
     [kind |-> "resp", status |-> 401, body |-> TRUE],
     [kind |-> "resp", status |-> 500, body |-> FALSE]}

\* StatusCode::is_success
is_success(status) == status >= 200 /\ status < 300

\* Uuid::new_v4
Uuids == {"uuid-1", "uuid-2"}

\* send_event
send_event(action, payload, secret, uuid, net) ==
    LET body == build_req_body(payload, secret, uuid)
        request == [action |-> action, payload |-> payload,
                    signature |-> Just(body[1].signature),
                    delivery_id |-> body[1].delivery_id]
    IN  IF body = Nothing
        THEN [requests |-> <<>>, log |-> <<"Missing WEBHOOK_PAYLOAD_SECRET">>]
        ELSE [requests |-> <<request>>,
              log |-> IF net.kind = "err" THEN <<"Error sending webhook">>
                      ELSE IF is_success(net.status) THEN <<"Sent webhook to server">>
                      ELSE <<"Webhook failed with status">>]

\* nothing sent, nothing printed
NoDelivery == [requests |-> <<>>, log |-> <<>>, panicked |-> FALSE]

\* load_inputs, clean_output, serialize_result, send_event in the order the
\* two entry points chain them
Deliver(file, table, share_link, action, secret, uuid, net) ==
    LET loaded == load_inputs(file)
        cleaned == clean_output(table, share_link)
        result == serialize_result(loaded.inputs[1].json, loaded.inputs[1].pr_number,
                                   cleaned[1], action)
        sent == send_event(action, result.payload[1], secret, uuid, net)
    IN  IF loaded.inputs = Nothing THEN [NoDelivery EXCEPT !.log = loaded.log]
        ELSE IF cleaned = Nothing THEN NoDelivery
        ELSE IF result.panicked THEN [NoDelivery EXCEPT !.panicked = TRUE]
        ELSE [requests |-> sent.requests, log |-> sent.log, panicked |-> FALSE]

\* send_started_event
send_started_event(file, secret, uuid, net) ==
    Deliver(file, <<Plain("no results")>>, Just("no share link"), "started",
            secret, uuid, net)

\* send_output_results
send_output_results(file, table, share_link, secret, uuid, net) ==
    Deliver(file, table, share_link, "complete", secret, uuid, net)

\* the inputs files drawn
WebhookInputs ==
    {MissingFile, UnparsableFile,
     JsonFile(JsonNull), JsonFile(JsonArray), JsonFile(JsonStr("12")),
     JsonFile(JsonNum("PosInt", "12")),
     JsonFile(JsonObject(<<Member("repo", JsonStr("burn"))>>)),
     JsonFile(JsonObject(<<Member("pr_number", JsonNum("PosInt", "12")),
                           Member("action", JsonStr("requested"))>>)),
     JsonFile(JsonObject(<<Member("pr_number", JsonNum("NegInt", "-3"))>>)),
     JsonFile(JsonObject(<<Member("pr_number", JsonStr("12"))>>)),
     JsonFile(JsonObject(<<Member("pr_number", JsonNum("Float", "12.5"))>>)),
     JsonFile(JsonObject(<<Member("pr_number", JsonNum("PosInt", I64Max))>>)),
     JsonFile(JsonObject(<<Member("pr_number", JsonNum("PosInt", "9223372036854775808"))>>)),
     JsonFile(JsonObject(<<Member("pr_number", JsonNull)>>))}

\* the tables and share links handed to send_output_results
WebhookTables ==
    {<<Plain("no rows")>>,
     <<Ansi("32"), Plain("matmul 1.2ms"), Ansi("0")>>}
ShareLinks == {Nothing, Just("https://burn.dev/benchmarks")}

WebhookIdle ==
    /\ wh_inputs_file = Nothing /\ wh_emit_started = Nothing /\ wh_secret = Nothing
    /\ wh_pc = "idle" /\ wh_requests = <<>> /\ wh_log = <<>> /\ wh_returned = <<>>

WebhookInit ==
    /\ wh_inputs_file \in {Nothing} \cup {Just(f) : f \in WebhookInputs}
    /\ wh_emit_started \in {Nothing, Just("true"), Just("1")}
    /\ wh_secret \in {Nothing, Just("s3cret")}
    /\ wh_pc = "start" /\ wh_requests = <<>> /\ wh_log = <<>> /\ wh_returned = <<>>

\* what a delivery leaves behind in the driver
WebhookAfter(d, name, next_pc) ==
    /\ wh_requests' = wh_requests \o d.requests
    /\ wh_log' = wh_log \o d.log
    /\ wh_returned' = IF d.panicked THEN wh_returned ELSE Append(wh_returned, name)
    /\ wh_pc' = IF d.panicked THEN "panicked" ELSE next_pc

\* run_backend_comparison_benchmarks before the first cell: the 'started' webhook
WebhookStarted ==
    /\ wh_pc = "start"
    /\ IF wh_inputs_file /= Nothing /\ wh_emit_started = Just("true")
       THEN \E uuid \in Uuids, net \in TransportOutcomes :
               WebhookAfter(send_started_event(wh_inputs_file[1], wh_secret, uuid, net),
                            "send_started_event", "running")
       ELSE /\ wh_pc' = "running"
            /\ UNCHANGED <<wh_requests, wh_log, wh_returned>>
    /\ UNCHANGED <<wh_inputs_file, wh_emit_started, wh_secret, notWebhook>>

\* run_backend_comparison_benchmarks after the table: the 'complete' webhook
WebhookComplete ==
    /\ wh_pc = "running"
    /\ IF wh_inputs_file /= Nothing
       THEN \E table \in WebhookTables, share_link \in ShareLinks,
               uuid \in Uuids, net \in TransportOutcomes :
               WebhookAfter(send_output_results(wh_inputs_file[1], table, share_link,
                                                wh_secret, uuid, net),
                            "send_output_results", "done")
       ELSE /\ wh_pc' = "done"
            /\ UNCHANGED <<wh_requests, wh_log, wh_returned>>
    /\ UNCHANGED <<wh_inputs_file, wh_emit_started, wh_secret, notWebhook>>

\* ------------------------------------------------------------------------
\* runner/base.rs : the end of run_backend_comparison_benchmarks, the share
\* link (web_results_url) and the printed report; auth/base.rs : get_username
\* ------------------------------------------------------------------------
BENCHMARK_WEBSITE_URL == "https://burn.dev/"

\* get_auth_header_value: the scheme by the prefix of the token, a panic for
\* any other token
get_auth_header_value(access_token) ==
    IF StartsWith(access_token, "ghu_")
    THEN [panicked |-> FALSE, value |-> "Bearer " \o access_token]
    ELSE IF StartsWith(access_token, "github_pat_")
    THEN [panicked |-> FALSE, value |-> "token " \o access_token]
    ELSE [panicked |-> TRUE, value |-> ""]

\* what the request of get_username comes to: send fails, a status that is
\* not 200, a body that is not a UserInfo, or a UserInfo
UsernameOutcomes == {"send_err", "status", "bad_json", "ok"}

\* get_username: the header is built before the request is sent
get_username(access_token, outcome, nickname) ==
    IF get_auth_header_value(access_token).panicked
    THEN [panicked |-> TRUE, user |-> Nothing]
    ELSE [panicked |-> FALSE,
          user |-> IF outcome = "ok" THEN Just(nickname) ELSE Nothing]

\* the characters NON_ALPHANUMERIC leaves alone
AlphaNumeric ==
    Digits \cup Letters
      \cup {"A", "B", "C", "D", "E", "F", "G", "H", "I", "J", "K", "L", "M",
             "N", "O", "P", "Q", "R", "S", "T", "U", "V", "W", "X", "Y", "Z"}

\* the escapes of the other characters that occur in versions and OS names
PercentOf(c) ==
    CASE c = " " -> "%20"
      [] c = "#" -> "%23"
      [] c = "," -> "%2C"
      [] c = "-" -> "%2D"
      [] c = "." -> "%2E"
      [] c = "/" -> "%2F"
      [] c = "_" -> "%5F"

\* utf8_percent_encode(text, NON_ALPHANUMERIC)
RECURSIVE utf8_percent_encode(_, _)
utf8_percent_encode(text, i) ==
    IF i > Len(text) THEN ""
    ELSE (IF Char(text, i) \in AlphaNumeric THEN Char(text, i)
          ELSE PercentOf(Char(text, i))) \o utf8_percent_encode(text, i + 1)

\* versions.join(",")
RECURSIVE JoinComma(_)
JoinComma(list) ==
    IF Len(list) = 0 THEN ""
    ELSE IF Len(list) = 1 THEN list[1]
    ELSE list[1] \o "," \o JoinComma(Tail(list))

\* web_results_url
web_results_url(token, versions, outcome, nickname, os) ==
    IF token = Nothing THEN [panicked |-> FALSE, link |-> Nothing]
    ELSE LET user == get_username(token[1], outcome, nickname)
         IN  IF user.panicked THEN [panicked |-> TRUE, link |-> Nothing]
             ELSE IF user.user = Nothing THEN [panicked |-> FALSE, link |-> Nothing]
             ELSE [panicked |-> FALSE,
                   link |-> Just(BENCHMARK_WEBSITE_URL
                                   \o "benchmarks/community-benchmarks?user=" \o user.user[1]
                                   \o "&sysHardware=Any&os=" \o utf8_percent_encode(os, 1)
                                   \o "&burnVersions="
                                   \o utf8_percent_encode(JoinComma(versions), 1))]

\* the access token of the run: none (no --share, or get_tokens gave None),
\* a user token, a fine-grained PAT, and values GITHUB_BOT_TOKEN may hold
\* that have neither prefix (a classic PAT, the empty string)
ShareTokens ==
    {Nothing, Just("ghu_abc123"), Just("github_pat_abc123"), Just("ghp_classic"),
     Just("")}

ShareVersions == {<<"main">>, <<"0.16.0", "main">>, <<"PR#12_7f9a2b1">>}
ShareTableTexts == {"| no rows |", "| matmul | 1.2ms |"}
Nicknames == {"octocat", "burn-bot"}
OsNames == {"Ubuntu", "Mac OS"}

ShareIdle ==
    /\ sh_token = Nothing /\ sh_versions = <<>> /\ sh_table = "" /\ sh_link = Nothing
    /\ sh_printed = <<>> /\ sh_pc = "idle"

\* every cell has been executed and the bar finished
ShareInit ==
    /\ sh_token \in ShareTokens /\ sh_versions \in ShareVersions
    /\ sh_table = "" /\ sh_link = Nothing /\ sh_printed = <<>> /\ sh_pc = "load"

\* report_collection.load_records(); collection.get_ascii_table()
ShareLoadRecords ==
    /\ sh_pc = "load"
    /\ sh_table' \in ShareTableTexts
    /\ sh_pc' = "link"
    /\ UNCHANGED <<sh_token, sh_versions, sh_link, sh_printed, notShare>>

\* let share_link = web_results_url(token, versions)
ShareWebResultsUrl ==
    /\ sh_pc = "link"
    /\ \E outcome \in UsernameOutcomes, nickname \in Nicknames, os \in OsNames :
         \E r \in {web_results_url(sh_token, sh_versions, outcome, nickname, os)} :
             /\ sh_link' = r.link
             /\ sh_pc' = IF r.panicked THEN "panicked" ELSE "print"
    /\ UNCHANGED <<sh_token, sh_versions, sh_table, sh_printed, notShare>>

\* output_results.push_str(..) with a link, then println!; the glyph ahead
\* of "Browse" is left out
SharePrint ==
    /\ sh_pc = "print"
    /\ sh_printed' = Append(sh_printed,
            IF sh_link = Nothing THEN sh_table
            ELSE sh_table \o "\n\nBrowse results at " \o sh_link[1])
    /\ sh_pc' = "done"
    /\ UNCHANGED <<sh_token, sh_versions, sh_table, sh_link, notShare>>

\* ------------------------------------------------------------------------
\* xtask compare.rs : BurnBenchCompareArgs::parse and run, BenchManifest
\* ------------------------------------------------------------------------
\* Regex::replace_all for  prefix .+ suffix : the dot matches no line break
\* and .+ is greedy, so a match runs from the prefix to the last suffix of
\* its line; the search goes on behind the match
RECURSIVE RegexLineReplace(_, _, _, _, _)
RegexLineReplace(s, prefix, suffix, r, i) ==
    LET j == FindFrom(s, prefix, i)
        nl == FindFrom(s, "\n", j)
        e == IF nl = 0 THEN Len(s) ELSE nl - 1
        K == {k \in (j + Len(prefix) + 1)..(e - Len(suffix) + 1) : StartsAt(s, suffix, k)}
    IN  IF j = 0 THEN SubSeq(s, i, Len(s))
        ELSE IF K = {}
        THEN SubSeq(s, i, j) \o RegexLineReplace(s, prefix, suffix, r, j + 1)
        ELSE LET k == CHOOSE x \in K : \A y \in K : y <= x
             IN  SubSeq(s, i, j - 1) \o r
                   \o RegexLineReplace(s, prefix, suffix, r, k + Len(suffix))

\* burn_re and burn_common_re, replaced one after the other
ReplaceBurnTables(content, burn, burn_common) ==
    RegexLineReplace(
        RegexLineReplace(content, "burn = { ", ", default-features = false }", burn, 1),
        "burn-common = { ", " }", burn_common, 1)

BenchManifest_update_burn_version(content, ver) ==
    ReplaceBurnTables(content,
        "burn = { version = \"" \o VersionToString(ver) \o "\", default-features = false }",
        "burn-common = { version = \"" \o VersionToString(ver) \o "\" }")

BenchManifest_update_burn_git(content, reference) ==
    ReplaceBurnTables(content,
        "burn = { git = \"https://github.com/tracel-ai/burn\", " \o reference
          \o ", default-features = false }",
        "burn-common = { git = \"https://github.com/tracel-ai/burn\", " \o reference \o " }")

BenchManifest_update_burn_local(content, repo_path) ==
    ReplaceBurnTables(content,
        "burn = { path = \"" \o repo_path \o "/crates/burn\", default-features = false }",
        "burn-common = { path = \"" \o repo_path \o "/crates/burn-common\" }")

replace_feature_flags_lt_0_17(content) ==
    StrReplace(StrReplace(StrReplace(StrReplace(StrReplace(content,
        "cuda = [\"burn/cuda\"]", "cuda = [\"burn/cuda-jit\"]"),
        "hip = [\"burn/hip\"]", "hip = [\"burn/hip-jit\"]"),
        "wgpu-spirv = [\"burn/vulkan\", \"burn/autotune\"]",
        "wgpu-spirv = [\"burn/wgpu-spirv\", \"burn/autotune\"]"),
        "ndarray-simd = [\"burn/ndarray\", \"burn/simd\"]",
        "ndarray-simd = [\"burn/ndarray\"]"),
        "rand = { version = \"0.9.0\" }", "rand = { version = \"0.8.5\" }")

replace_feature_flags_ge_17(content) ==
    StrReplace(StrReplace(StrReplace(StrReplace(StrReplace(content,
        "cuda = [\"burn/cuda-jit\"]", "cuda = [\"burn/cuda\"]"),
        "hip = [\"burn/hip-jit\"]", "hip = [\"burn/hip\"]"),
        "wgpu-spirv = [\"burn/wgpu-spirv\", \"burn/autotune\"]",
        "wgpu-spirv = [\"burn/vulkan\", \"burn/autotune\"]"),
        "ndarray-simd = [\"burn/ndarray\"]",
        "ndarray-simd = [\"burn/ndarray\", \"burn/simd\"]"),
        "rand = { version = \"0.8.5\" }", "rand = { version = \"0.9.0\" }")

\* the text BenchManifest::update writes for a version, from the text it read
BenchManifest_update(content, ver, repo_path) ==
    LET dep == DependencyNew(ver)
    IN  CASE dep.kind = "Local" ->
               replace_feature_flags_ge_17(
                   BenchManifest_update_burn_local(content, repo_path))
          [] dep.kind = "Git" ->
               replace_feature_flags_ge_17(
                   BenchManifest_update_burn_git(content, dep.ref))
          [] dep.kind = "Crate" ->
               LET versioned == BenchManifest_update_burn_version(content, dep.version)
                   renamed == replace_feature_flags_lt_0_17(versioned)
               IN  IF VersionLessThanRelease(dep.version, VersionNew("0", "17", "0"))
                   THEN IF Contains(renamed, BincodePin) THEN renamed
                        ELSE StrReplace(renamed, "[dependencies]", BincodeInsert)
                   ELSE replace_feature_flags_ge_17(versioned)

\* how a std::fs::copy or std::fs::write can go: it succeeds, or it fails
\* and leaves its destination untouched, empty or half written
CopyOutcomes ==
    {[ok |-> TRUE, torn |-> "untouched"]}
      \cup {[ok |-> FALSE, torn |-> t] : t \in TornModes}

\* std::fs::copy(from, to) on files that are Nothing while they do not exist
fs_copy(from, to, outcome) ==
    IF from = Nothing THEN [ok |-> FALSE, to |-> to]
    ELSE IF outcome.ok THEN [ok |-> TRUE, to |-> from]
    ELSE [ok |-> FALSE,
          to |-> IF outcome.torn = "untouched" THEN to
                 ELSE Just(TornWrite(IF to = Nothing THEN "" ELSE to[1],
                                     from[1], outcome.torn))]

\* backend-comparison/Cargo.toml before the comparison
CompareManifest ==
    "[dependencies]\nburn = { version = \"0.17.0\", default-features = false }\n"
      \o "burn-common = { version = \"0.17.0\" }\n"
      \o "[features]\ncuda = [\"burn/cuda\"]\n"

\* Cargo.toml.bak as an earlier comparison left it: parse never removes it
StaleBackup ==
    "[dependencies]\nburn = { version = \"0.15.0\", default-features = false }\n"

CompareVersionPool == {"local", "0.16.0", "0.18.0", "main"}

CompareVersionLists ==
    UNION {[1..n -> CompareVersionPool] : n \in 1..MaxCompareVersions}

CompareIdle ==
    /\ cm_source = "" /\ cm_backup = Nothing /\ cm_versions = <<>> /\ cm_i = 0
    /\ cm_pc = "idle" /\ cm_result = "none" /\ cm_failed = "none"
    /\ cm_original = "" /\ cm_read = <<>> /\ cm_ran = <<>>

\* BurnBenchCompareArgs::parse is called
CompareInit ==
    /\ cm_source = CompareManifest
    /\ cm_backup \in {Nothing, Just(CompareManifest), Just(StaleBackup)}
    /\ cm_versions \in CompareVersionLists
    /\ cm_i = 0 /\ cm_pc = "log" /\ cm_result = "none" /\ cm_failed = "none"
    /\ cm_original = cm_source /\ cm_read = <<>> /\ cm_ran = <<>>

\* LogFile::new()? and the log_both(..)? calls of the summary
CmpLog ==
    /\ cm_pc = "log"
    /\ \/ /\ cm_pc' = "backup"
          /\ UNCHANGED <<cm_result, cm_failed>>
       \/ /\ cm_pc' = "returned" /\ cm_result' = "Err" /\ cm_failed' = "log"
    /\ UNCHANGED <<cm_source, cm_backup, cm_versions, cm_i, cm_original, cm_read,
                   cm_ran, notCompare>>

\* manifest.create_backup()?
CmpCreateBackup ==
    /\ cm_pc = "backup"
    /\ \E o \in CopyOutcomes :
         \E r \in {fs_copy(Just(cm_source), cm_backup, o)} :
             /\ cm_backup' = r.to
             /\ cm_pc' = IF r.ok THEN "update" ELSE "map_err"
             /\ cm_i' = IF r.ok THEN 1 ELSE cm_i
             /\ cm_failed' = IF r.ok THEN cm_failed ELSE "backup"
    /\ UNCHANGED <<cm_source, cm_versions, cm_result, cm_original, cm_read, cm_ran,
                   notCompare>>

\* manifest.update(&version)?: read_content, the rewrite, write_content
CmpUpdate ==
    /\ cm_pc = "update"
    /\ \/ /\ cm_pc' = "map_err" /\ cm_failed' = "update"
          /\ UNCHANGED <<cm_source, cm_read>>
       \/ \E o \in CopyOutcomes :
            \E new \in {BenchManifest_update(cm_source, cm_versions[cm_i], "../../burn")} :
                /\ cm_read' = Append(cm_read, cm_source)
                /\ cm_source' = IF o.ok THEN new ELSE TornWrite(cm_source, new, o.torn)
                /\ cm_pc' = IF o.ok THEN "bench" ELSE "map_err"
                /\ cm_failed' = IF o.ok THEN cm_failed ELSE "update"
    /\ UNCHANGED <<cm_backup, cm_versions, cm_i, cm_result, cm_original, cm_ran,
                   notCompare>>

\* BurnBench::run_with_log(version, ..)?: Ok, or the Err of run_bench
CmpRunWithLog ==
    /\ cm_pc = "bench"
    /\ cm_ran' = Append(cm_ran, cm_versions[cm_i])
    /\ \/ /\ cm_pc' = "restore"
          /\ UNCHANGED cm_failed
       \/ /\ cm_pc' = "map_err" /\ cm_failed' = "bench"
    /\ UNCHANGED <<cm_source, cm_backup, cm_versions, cm_i, cm_result, cm_original,
                   cm_read, notCompare>>

\* manifest.restore_backup()?, then the next version or Ok(())
CmpRestore ==
    /\ cm_pc = "restore"
    /\ \E o \in CopyOutcomes :
         \E r \in {fs_copy(cm_backup, Just(cm_source), o)} :
             /\ cm_source' = r.to[1]
             /\ IF ~ r.ok
                THEN /\ cm_pc' = "map_err" /\ cm_failed' = "restore"
                     /\ UNCHANGED <<cm_i, cm_result>>
                ELSE IF cm_i < Len(cm_versions)
                THEN /\ cm_pc' = "update" /\ cm_i' = cm_i + 1
                     /\ UNCHANGED <<cm_result, cm_failed>>
                ELSE /\ cm_pc' = "returned" /\ cm_result' = "Ok"
                     /\ UNCHANGED <<cm_i, cm_failed>>
    /\ UNCHANGED <<cm_backup, cm_versions, cm_original, cm_read, cm_ran, notCompare>>

\* map_err(|err| { manifest.restore_backup().ok(); err })?
CmpMapErr ==
    /\ cm_pc = "map_err"
    /\ \E o \in CopyOutcomes :
         \E r \in {fs_copy(cm_backup, Just(cm_source), o)} :
             cm_source' = r.to[1]
    /\ cm_pc' = "returned" /\ cm_result' = "Err"
    /\ UNCHANGED <<cm_backup, cm_versions, cm_i, cm_failed, cm_original, cm_read,
                   cm_ran, notCompare>>

vars == <<clsVars, ffVars, fileVars, patchVars, argVars, drvVars, supVars, benchVars, niceVars, repVars, lgVars, auVars, whVars, barVars, mxVars, shVars, cmVars>>

InitClassify == ClsInit /\ FFIdle /\ FileIdle /\ PatchIdle /\ DrvIdle /\ SupIdle /\ BenchIdle /\ NiceIdle /\ RepIdle /\ LegacyIdle /\ AuthIdle /\ WebhookIdle /\ BarIdle /\ MutexIdle /\ ShareIdle /\ CompareIdle
NextClassify == Classify
SpecClassify == InitClassify /\ [][NextClassify]_vars

InitFlags == FFInit /\ ClsIdle /\ FileIdle /\ PatchIdle /\ DrvIdle /\ SupIdle /\ BenchIdle /\ NiceIdle /\ RepIdle /\ LegacyIdle /\ AuthIdle /\ WebhookIdle /\ BarIdle /\ MutexIdle /\ ShareIdle /\ CompareIdle
NextFlags == TranslateOnce \/ TranslateAgain
SpecFlags == InitFlags /\ [][NextFlags]_vars

InitPatch == PatchInit /\ ClsIdle /\ FFIdle /\ DrvIdle /\ SupIdle /\ BenchIdle /\ NiceIdle /\ RepIdle /\ LegacyIdle /\ AuthIdle /\ WebhookIdle /\ BarIdle /\ MutexIdle /\ ShareIdle /\ CompareIdle
NextPatch == PatchManifest \/ RestoreManifest
SpecPatch == InitPatch /\ [][NextPatch]_vars

\* a run that is killed while its manifest is patched, and the run after it
NextKill == PatchManifest \/ RestoreManifest \/ KillOrchestrator \/ RerunPatch \/ RerunRestore
SpecKill == InitPatch /\ [][NextKill]_vars

InitMatrix == DrvInit /\ ClsIdle /\ FFIdle /\ PatchIdle /\ SupIdle /\ BenchIdle /\ NiceIdle /\ RepIdle /\ LegacyIdle /\ AuthIdle /\ WebhookIdle /\ BarIdle /\ MutexIdle /\ ShareIdle /\ CompareIdle
NextMatrix ==
    \/ CommandRun
    \/ RcPatch
    \/ RcFeatures
    \/ RcSpawn
    \/ RcRunCommand
    \/ RcDropGuard
    \/ DrvRecord
    \/ DrvReport
SpecMatrix == InitMatrix /\ [][NextMatrix]_vars

InitRunCommand ==
    SupInit /\ ClsIdle /\ FFIdle /\ FileIdle /\ PatchIdle /\ DrvIdle /\ BenchIdle /\ NiceIdle /\ RepIdle /\ LegacyIdle /\ AuthIdle /\ WebhookIdle /\ BarIdle /\ MutexIdle /\ ShareIdle /\ CompareIdle
NextRunCommand ==
    \/ \E s \in Streams : ChildWrite(s)
    \/ \E s \in Streams : ChildClose(s)
    \/ ChildExit
    \/ \E s \in Streams : SupSpawn(s)
    \/ \E s \in Streams : ReaderRead(s)
    \/ \E s \in Streams : ReaderProcessLine(s)
    \/ \E s \in Streams : ReaderProgress(s)
    \/ \E s \in Streams : SupJoin(s)
    \/ SupFinish
    \/ SupWait
SpecRunCommand == InitRunCommand /\ [][NextRunCommand]_vars

\* the matrix run that is not verbose, with the supervisor of every cell in
\* full, on one manifest layout and one bench list
InitMatrixBar ==
    InitMatrix /\ ~ m_verbose /\ m_benches = <<>> /\ manifest.benches = DirectManifest /\ MutexIdle /\ ShareIdle /\ CompareIdle
NextMatrixBar ==
    \/ CommandRun
    \/ RcPatch
    \/ RcFeatures
    \/ MbSpawn
    \/ \E s \in Streams : ChildWrite(s)
    \/ \E s \in Streams : ChildClose(s)
    \/ ChildExit
    \/ \E s \in Streams : SupSpawn(s)
    \/ \E s \in Streams : ReaderRead(s)
    \/ \E s \in Streams : ReaderProcessLine(s)
    \/ \E s \in Streams : ReaderProgress(s)
    \/ \E s \in Streams : SupJoin(s)
    \/ MbFinish
    \/ SupWait
    \/ MbReturn
    \/ RcDropGuard
    \/ DrvRecord
    \/ DrvReport
SpecMatrixBar == InitMatrixBar /\ [][NextMatrixBar]_vars

\* run_command with a NiceProcessor, the calls on the bar statement by
\* statement. The two readers and the supervisor are operating-system
\* threads: each of them that can take a step eventually takes one. The
\* child is not obliged to write, to close or to exit.
InitReaders ==
    SupInit /\ NiceInit /\ np_bench = "matmul" /\ np_backend = "wgpu" /\ MutexIdle
    /\ ClsIdle /\ FFIdle /\ FileIdle /\ PatchIdle /\ DrvIdle /\ BenchIdle /\ RepIdle
    /\ LegacyIdle /\ AuthIdle /\ WebhookIdle /\ BarIdle /\ ShareIdle /\ CompareIdle
NextReaders ==
    \/ \E s \in Streams : ChildWrite(s)
    \/ \E s \in Streams : ChildClose(s)
    \/ ChildExit
    \/ \E s \in Streams : SupSpawn(s)
    \/ \E s \in Streams : ReaderRead(s)
    \/ \E s \in Streams : MxLock(s)
    \/ \E s \in Streams : MxSpinner(s)
    \/ \E s \in Streams : MxMessage(s)
    \/ \E s \in Streams : MxProgress(s)
    \/ \E s \in Streams : SupJoin(s)
    \/ MxFinish
    \/ SupWait
FairReaders ==
    /\ \A s \in Streams :
          /\ WF_vars(SupSpawn(s)) /\ WF_vars(ReaderRead(s)) /\ WF_vars(MxLock(s))
          /\ WF_vars(MxSpinner(s)) /\ WF_vars(MxMessage(s)) /\ WF_vars(MxProgress(s))
          /\ WF_vars(SupJoin(s))
    /\ WF_vars(MxFinish) /\ WF_vars(SupWait)
SpecReaders == InitReaders /\ [][NextReaders]_vars /\ FairReaders

\* the report at the end of a run
InitShare ==
    ShareInit /\ ClsIdle /\ FFIdle /\ FileIdle /\ PatchIdle /\ DrvIdle /\ SupIdle
    /\ BenchIdle /\ NiceIdle /\ RepIdle /\ LegacyIdle /\ AuthIdle /\ WebhookIdle
    /\ BarIdle /\ MutexIdle /\ CompareIdle
NextShare == ShareLoadRecords \/ ShareWebResultsUrl \/ SharePrint
SpecShare == InitShare /\ [][NextShare]_vars

\* xtask compare
InitCompare ==
    CompareInit /\ ClsIdle /\ FFIdle /\ FileIdle /\ PatchIdle /\ DrvIdle /\ SupIdle
    /\ BenchIdle /\ NiceIdle /\ RepIdle /\ LegacyIdle /\ AuthIdle /\ WebhookIdle
    /\ BarIdle /\ MutexIdle /\ ShareIdle
NextCompare ==
    CmpLog \/ CmpCreateBackup \/ CmpUpdate \/ CmpRunWithLog \/ CmpRestore \/ CmpMapErr
SpecCompare == InitCompare /\ [][NextCompare]_vars

\* xtask's run_bench on a spawned child
NextXtaskBench ==
    \/ \E s \in Streams : ChildWrite(s)
    \/ \E s \in Streams : ChildClose(s)
    \/ ChildExit
    \/ \E s \in Streams : XtSpawn(s)
    \/ \E s \in Streams : ReaderRead(s)
    \/ \E s \in Streams : XtReaderPrint(s)
    \/ XtWait
    \/ \E s \in Streams : XtJoin(s)
    \/ XtCheck
SpecXtaskBench == InitRunCommand /\ [][NextXtaskBench]_vars

InitBench ==
    BenchInit /\ ClsIdle /\ FFIdle /\ FileIdle /\ PatchIdle /\ DrvIdle /\ SupIdle /\ NiceIdle /\ RepIdle /\ LegacyIdle /\ AuthIdle /\ WebhookIdle /\ BarIdle /\ MutexIdle /\ ShareIdle /\ CompareIdle
NextBench ==
    \/ BenchPrepare
    \/ BenchSync
    \/ BenchExecute
    \/ BenchResolve
    \/ BenchSleep
    \/ BenchReturn
SpecBench == InitBench /\ [][NextBench]_vars

InitNice ==
    NiceInit /\ ClsIdle /\ FFIdle /\ FileIdle /\ PatchIdle /\ DrvIdle /\ SupIdle /\ BenchIdle /\ RepIdle /\ LegacyIdle /\ AuthIdle /\ WebhookIdle /\ BarIdle /\ MutexIdle /\ ShareIdle /\ CompareIdle
NextNice ==
    \/ NiceProcessLine
    \/ NiceProgress
    \/ NiceFinish
SpecNice == InitNice /\ [][NextNice]_vars

InitReport ==
    RepInit /\ ClsIdle /\ FFIdle /\ FileIdle /\ PatchIdle /\ DrvIdle /\ SupIdle
    /\ BenchIdle /\ NiceIdle /\ LegacyIdle /\ AuthIdle /\ WebhookIdle /\ BarIdle /\ MutexIdle /\ ShareIdle /\ CompareIdle
NextReport ==
    \/ RepDefault
    \/ RepChildSave
    \/ RepCellEnds
    \/ RepLoadRecords
    \/ RepRender
SpecReport == InitReport /\ [][NextReport]_vars

InitLegacy ==
    LegacyInit /\ ClsIdle /\ FFIdle /\ FileIdle /\ PatchIdle /\ DrvIdle /\ SupIdle
    /\ BenchIdle /\ NiceIdle /\ RepIdle /\ AuthIdle /\ WebhookIdle /\ BarIdle /\ MutexIdle /\ ShareIdle /\ CompareIdle
NextLegacy ==
    \/ LegacyPatch
    \/ LegacyFeatures
SpecLegacy == InitLegacy /\ [][NextLegacy]_vars

InitAuth ==
    AuthInit /\ ClsIdle /\ FFIdle /\ FileIdle /\ PatchIdle /\ DrvIdle /\ SupIdle
    /\ BenchIdle /\ NiceIdle /\ RepIdle /\ LegacyIdle /\ WebhookIdle /\ BarIdle /\ MutexIdle /\ ShareIdle /\ CompareIdle
NextAuth ==
    \/ AuthSaveTokens
    \/ AuthGetTokensFromCache
    \/ AuthGetTokens
SpecAuth == InitAuth /\ [][NextAuth]_vars

InitWebhook ==
    WebhookInit /\ ClsIdle /\ FFIdle /\ FileIdle /\ PatchIdle /\ DrvIdle /\ SupIdle
    /\ BenchIdle /\ NiceIdle /\ RepIdle /\ LegacyIdle /\ AuthIdle /\ BarIdle /\ MutexIdle /\ ShareIdle /\ CompareIdle
NextWebhook ==
    \/ WebhookStarted
    \/ WebhookComplete
SpecWebhook == InitWebhook /\ [][NextWebhook]_vars

\* ------------------------------------------------------------------------
\* Properties
\* ------------------------------------------------------------------------
\* a string of 7 to 40 characters, each one of 0-9 a-f
IsLowerHex7to40(s) ==
    /\ Len(s) \in 7..40
    /\ \A i \in 1..Len(s) :
         Char(s, i) \in {"0", "1", "2", "3", "4", "5", "6", "7", "8", "9",
                         "a", "b", "c", "d", "e", "f"}

GitRev(s) == [kind |-> "Git", ref |-> "rev = \"" \o s \o "\""]
GitBranch(s) == [kind |-> "Git", ref |-> "branch = \"" \o s \o "\""]

ExamplesOtherThanV ==
    /\ (IsLowerHex7to40(version) => dependency = GitRev(version))
    /\ (version = "main" => dependency = GitBranch("main"))
    /\ (version = "0.17.0" =>
          dependency = [kind |-> "Crate", version |-> VersionNew("0", "17", "0")])
    /\ (version = "local" => dependency = [kind |-> "Local"])

\* C7 as stated: classification follows the spec's examples, "v7f9a2b1"
\* being a commit reference like every 7-40 character lowercase hex string.
C7_AsStated ==
    dependency /= NoDep =>
        /\ ExamplesOtherThanV
        /\ (version = "v7f9a2b1" => dependency = GitRev("v7f9a2b1"))

\* C7 amended: every 7-40 character lowercase hex string becomes a commit
\* reference, "main" a branch, "0.17.0" a released version, "local" Local;
\* "v7f9a2b1" holds the non-hex character v and becomes a branch.
C7_Classification ==
    dependency /= NoDep =>
        /\ ExamplesOtherThanV
        /\ (version = "v7f9a2b1" => dependency = GitBranch("v7f9a2b1"))

C7_Witness ==
    /\ version = Rep("a", 40)
    /\ dependency = GitRev(version)

\* C8 as stated: every string is classified, semver first, then 7-40 hex as a
\* commit, otherwise as a branch.
C8_AsStated ==
    dependency /= NoDep =>
        dependency =
            IF VersionParse(version).ok
            THEN [kind |-> "Crate", version |-> VersionParse(version).v]
            ELSE IF IsLowerHex7to40(version) THEN GitRev(version)
            ELSE GitBranch(version)

\* C8 amended: Dependency::new never fails; the literal "local" yields Local,
\* any other string is a released version when it parses as semver, else a
\* commit when it is 7-40 lowercase hex, else a branch.
C8_Total ==
    dependency /= NoDep =>
        /\ dependency.kind \in {"Local", "Crate", "Git"}
        /\ (dependency.kind = "Local" <=> version = "local")
        /\ (dependency.kind = "Crate" <=>
              (version /= "local" /\ VersionParse(version).ok))
        /\ (dependency.kind = "Crate" =>
              VersionToString(dependency.version) = version)
        /\ (dependency.kind = "Git" =>
              dependency = IF IsLowerHex7to40(version)
                           THEN GitRev(version) ELSE GitBranch(version))

C8_Witness ==
    /\ version = "feature/x"
    /\ dependency = GitBranch("feature/x")

RECURSIVE CountFrom(_, _, _)
CountFrom(s, p, i) ==
    LET j == FindFrom(s, p, i)
    IN  IF j = 0 THEN 0 ELSE 1 + CountFrom(s, p, j + Len(p))

Occurrences(s, p) == CountFrom(s, p, 1)

\* C9: translating translated content again changes nothing, and a manifest
\* with one [dependencies] table and no bincode pin holds at most one pin
\* after two translations.
C9_Idempotent ==
    ff_pc = 2 =>
        /\ ff_twice = ff_once
        /\ (/\ Occurrences(ff_content, "[dependencies]") <= 1
            /\ Occurrences(ff_content, "bincode = \"=2.0.0-rc.3\"") = 0
            => Occurrences(ff_twice, "bincode = \"=2.0.0-rc.3\"") <= 1)

C9_Witness ==
    /\ ff_pc = 2
    /\ ff_once /= ff_content
    /\ Occurrences(ff_content, "bincode = \"=2.0.0-rc.3\"") = 0
    /\ Occurrences(ff_twice, "bincode = \"=2.0.0-rc.3\"") = 1
    /\ Occurrences(ff_twice, "cuda = [\"burn/cuda-jit\"]") = 1

\* C1: once patch has succeeded and its guard has been dropped, every manifest
\* file that patch wrote holds the text it held before patch was called.
C1_RoundTrip ==
    p_pc = "restored" => \A f \in written : manifest[f] = pre_patch[f]

C1_Witness ==
    /\ p_pc = "restored"
    /\ written = {"benches", "workspace"}
    /\ post_patch.benches /= pre_patch.benches
    /\ post_patch.workspace /= pre_patch.workspace
    /\ manifest = pre_patch

\* C2: whenever run_cargo is not in progress (between two cells, after the
\* last cell, or after a panic or io::Error ended the run) no guard is alive
\* and the manifest files hold what they held when the run started.
C2_GuardReleased ==
    rc_pc \in {"none", "returned"} /\ drv_pc /= "idle" =>
        /\ guards = <<>>
        /\ manifest = m_original

C2_Witness ==
    /\ outcomes = <<"failure", "panic">>
    /\ drv_pc = "panicked"
    /\ Len(cargo_calls) = 2
    /\ guards = <<>>
    /\ manifest = m_original
    /\ manifest.benches = InheritingManifest

\* C3: at most one guard is alive and at most one child is running, and a
\* cell is entered only with no guard alive and no child running.
C3_OneAtATime ==
    /\ Len(guards) <= 1
    /\ Cardinality(children) <= 1
    /\ (drv_pc = "cell" /\ rc_pc = "none" => guards = <<>> /\ children = {})

C3_Witness ==
    /\ Len(cargo_calls) = 2
    /\ Len(guards) = 1
    /\ children = {2}

\* the FailedBenchmark entries the first n outcomes call for
RECURSIVE ExpectedFailed(_)
ExpectedFailed(n) ==
    IF n = 0 THEN <<>>
    ELSE IF outcomes[n] = "failure"
         THEN Append(ExpectedFailed(n - 1),
                     [bench |-> Join(cargo_calls[n].benches),
                      backend |-> cargo_calls[n].backend])
         ELSE ExpectedFailed(n - 1)

ExpectedCall(i) ==
    LET nb == Len(m_backends)
        nd == Len(m_dtypes)
    IN  [version |-> m_versions[((i - 1) \div (nb * nd)) + 1],
         backend |-> m_backends[(((i - 1) \div nd) % nb) + 1],
         dtype |-> m_dtypes[((i - 1) % nd) + 1],
         benches |-> m_benches]

FailureCount == Cardinality({i \in 1..Len(outcomes) : outcomes[i] = "failure"})

\* C5: run_cargo is never called more than once per cell; a run that reaches
\* the end has called it once per (version, backend, dtype), version
\* outermost and dtype innermost, each time with the whole bench list; with
\* exactly one failing cell there is exactly one FailedBenchmark, and the
\* progress bar (which exists unless the run is verbose) was created with
\* that total and counts total-1 successes.
C5_CellCount ==
    /\ drv_pc /= "idle" /\ drv_pc /= "command_run" =>
          /\ Len(cargo_calls) <= TotalCount
          /\ \A i \in 1..Len(cargo_calls) : cargo_calls[i] = ExpectedCall(i)
          /\ (pb_total /= NoBar <=> ~ m_verbose)
          /\ (pb_total /= NoBar => pb_total = TotalCount)
    /\ drv_pc = "done" =>
          /\ Len(cargo_calls) = TotalCount
          /\ (FailureCount = 1 =>
                /\ Len(failed_benchmarks) = 1
                /\ (pb_total /= NoBar =>
                      succeeded_inc = TotalCount - 1 /\ failed_inc = 1))

C5_Witness ==
    /\ drv_pc = "done"
    /\ ~ m_verbose
    /\ Len(m_versions) = 2 /\ Len(m_dtypes) = 2
    /\ Len(cargo_calls) = 4
    /\ FailureCount = 1
    /\ succeeded_inc = 3
    /\ pb_total = 4

\* ------------------------------------------------------------------------
\* run_command: joins, finish and wait
\* ------------------------------------------------------------------------
\* C6: in run_command, processor.finish() is called only once both reader
\* threads have ended (joined) and every line of both streams has been
\* forwarded to the processor, and the exit status is read with wait() only
\* after finish() has been called; finish() is called at most once.
C6_JoinFinishWait ==
    /\ finish_calls <= 1
    /\ finish_calls = 1 =>
          /\ sup_pc \in {"wait", "returned"}
          /\ \A s \in Streams :
                /\ readers[s] = "done"
                /\ pipes[s] = <<>>
                /\ lines_forwarded[s] = lines_written[s]
          /\ progress_calls = lines_forwarded["stdout"] + lines_forwarded["stderr"]
    /\ sup_result /= "none" => finish_calls = 1
    /\ sup_pc \in {"wait", "returned"} => finish_calls = 1

\* a run_command that returned the exit status of a child which wrote the
\* most lines on both streams
C6_Witness ==
    /\ sup_pc = "returned"
    /\ sup_result = "failure"
    /\ finish_calls = 1
    /\ \A s \in Streams : lines_forwarded[s] = MaxLinesPerStream

\* ------------------------------------------------------------------------
\* Benchmark::run: the calls it makes and the durations it returns
\* ------------------------------------------------------------------------
Positions(calls, name) == {i \in 1..Len(calls) : calls[i] = name}

\* what BENCH_NUM_SAMPLES is read as, input by input
ExpectedSamples(env) ==
    CASE env = <<"0">> -> 0
      [] env = <<"1">> -> 1
      [] env = <<"2">> -> 2
      [] env = <<"+3">> -> 3
      [] env = <<"04">> -> 4
      [] OTHER -> 10

\* C10: a finished Benchmark::run has called prepare exactly once and first,
\* made 3 warm-up executions ahead of the sleep and num_samples() timed
\* executions after it, every execute has a sync right before and right after
\* it, a resolve lies between any two executes and after the last one, and
\* the durations returned are those of the timed executions, in the order
\* they were made, the warm-up ones left out.
C10_RunProtocol ==
    b_pc = "done" =>
        LET n == ExpectedSamples(b_env)
            ex == Positions(b_calls, "execute")
            sl == Positions(b_calls, "sleep")
        IN  /\ Positions(b_calls, "prepare") = {1}
            /\ Cardinality(sl) = 1
            /\ Cardinality({i \in ex : \A j \in sl : i < j}) = 3
            /\ Cardinality({i \in ex : \A j \in sl : i > j}) = n
            /\ n = num_samples(b_env)
            /\ \A i \in ex :
                  /\ i > 1 /\ b_calls[i - 1] = "sync"
                  /\ i < Len(b_calls) /\ b_calls[i + 1] = "sync"
                  /\ \E k \in (i + 1)..Len(b_calls) :
                        /\ b_calls[k] = "resolve"
                        /\ \A j \in ex : j > i => k < j
            /\ Len(b_durations) = n
            /\ \A k \in 1..n : b_durations[k] = 3 + k

\* a finished run on the device timing method with BENCH_NUM_SAMPLES=+3
C10_Witness ==
    /\ b_pc = "done"
    /\ b_timing = "Device"
    /\ b_env = <<"+3">>
    /\ Len(b_durations) = 3
    /\ Cardinality(Positions(b_calls, "execute")) = 6

\* ------------------------------------------------------------------------
\* NiceProcessor as a state machine
\* ------------------------------------------------------------------------
\* the states a line's markers name
MarkedStates(line) ==
    {st \in {"Compiling", "Running", "Uploading"} :
        Contains(line, CASE st = "Compiling" -> "Compiling"
                         [] st = "Running" -> "Running"
                         [] st = "Uploading" -> "Sharing")}

\* C11: NiceProcessor behaves as the state machine Default -> Compiling (on
\* a line containing "Compiling") -> Running (on "Running") -> Uploading (on
\* "Sharing"): a line with a marker moves the machine to the marker's state,
\* a line without one leaves the state where it is; the message is the format
\* of the state, and the spinner is stopped while the state is Compiling or
\* Running and started while it is Uploading.
C11_StateMachine ==
    [][np_count' = np_count + 1 =>
          /\ IF MarkedStates(np_line') = {} THEN np_state' = np_state
             ELSE np_state' \in MarkedStates(np_line')
          /\ np_message' = format_pb_message(np_bench, np_backend, np_state')
          /\ np_state' \in {"Compiling", "Running"} => ~ np_spinner'
          /\ np_state' = "Uploading" => np_spinner']_vars

\* ------------------------------------------------------------------------
\* the rendered report
\* ------------------------------------------------------------------------
RowsOfKind(rows, kind) == {i \in 1..Len(rows) : rows[i].kind = kind}

\* (name, shapes, median) of row a is not greater than that of row b
KeyLeq(a, b) ==
    \/ StrCmp(a.name, b.name) < 0
    \/ /\ a.name = b.name
       /\ \/ ShapesCmp(a.shapes, b.shapes) < 0
          \/ a.shapes = b.shapes /\ a.median <= b.median

\* the failed rows the finished cells call for, in cell order
RECURSIVE FailedOf(_, _)
FailedOf(cell_outcomes, i) ==
    IF i > Len(cell_outcomes) THEN <<>>
    ELSE (IF cell_outcomes[i].code /= 0
          THEN <<[kind |-> "failed", name |-> "matmul, binary",
                  backend |-> [ticked |-> cell_outcomes[i].backend]]>>
          ELSE <<>>) \o FailedOf(cell_outcomes, i + 1)


\* C12: in the rendered report the rows of the successful records are in
\* ascending (name, shapes, median) order, one row per record, and every
\* FailedBenchmark row comes after all of them, the failed rows being those
\* of the failing cells in cell execution order.
C12_ReportOrder ==
    rp_pc = "rendered" =>
        LET succ == RowsOfKind(rp_rows, "success")
            fail == RowsOfKind(rp_rows, "failed")
            shown == FailedOf(rp_outcomes, 1)
        IN  /\ \A i \in succ : \A j \in succ : i < j => KeyLeq(rp_rows[i], rp_rows[j])
            /\ Cardinality(succ) = Len(rp_records)
            /\ \A i \in succ : \A j \in fail : i < j
            /\ \A i \in RowsOfKind(rp_rows, "separator") : \A j \in fail : i < j
            /\ Cardinality(fail) = Len(shown)
            /\ SubSeq(rp_rows, Len(rp_rows) - Len(shown) + 1, Len(rp_rows)) = shown

\* a report of three records loaded out of order and two failed cells on
\* different backends
C12_Witness ==
    /\ rp_pc = "rendered"
    /\ rp_logged = <<2, 3, 4>>
    /\ Len(rp_records) = 3
    /\ Len(rp_failed) = 2
    /\ rp_failed[1].backend /= rp_failed[2].backend
    /\ rp_rows[1].name = "binary"

\* the cells that ended with a non-zero exit code, as FailedBenchmark values
RECURSIVE FailedCells(_, _)
FailedCells(cell_outcomes, i) ==
    IF i > Len(cell_outcomes) THEN <<>>
    ELSE (IF cell_outcomes[i].code /= 0
          THEN <<[bench |-> "matmul, binary", backend |-> cell_outcomes[i].backend]>>
          ELSE <<>>) \o FailedCells(cell_outcomes, i + 1)

AliasesRenamed(text) ==
    \A k \in {1, 2, 4, 6} :
        /\ ~ Contains(text, LegacyRenames[k][1])
        /\ Contains(text, LegacyRenames[k][2])

\* the aliases of the crate manifest carry their current names
AliasesKept(text) ==
    \A k \in {1, 2, 4, 6} : Contains(text, LegacyRenames[k][1])

\* C13: legacy handling follows the version boundary: "0.16.0" gets the
\* legacy-v16 marker and the renamed aliases; "0.17.0" and every release at
\* or after 0.17.0 gets no legacy-v16 marker and keeps its aliases; every
\* release before the boundary carries a legacy marker.
C13_LegacyBoundary ==
    lg_pc = "featured" =>
        LET parsed == VersionParse(lg_version)
            before == VersionLessThanRelease(parsed.v, VersionNew("0", "17", "0"))
        IN  /\ lg_version = "0.16.0" =>
                  /\ Contains(lg_features, "legacy-v16")
                  /\ AliasesRenamed(lg_files.benches)
            /\ parsed.ok /\ ~ before =>
                  /\ ~ Contains(lg_features, "legacy-v16")
                  /\ AliasesKept(lg_files.benches)
            /\ parsed.ok /\ before => Contains(lg_features, "legacy-v")


\* C14: command_run turns an empty dtype list into [f32], an empty bench list
\* into ["all"] and an empty version list into ["main"], passes a non-empty
\* list through unchanged, and so the matrix never runs (no cell is entered, no
\* cargo call is made) with zero versions or zero dtypes.
C14_Defaults ==
    [][/\ (drv_pc = "command_run" /\ drv_pc' /= "command_run") =>
            /\ m_dtypes' = (IF Len(m_dtypes) = 0 THEN <<"f32">> ELSE m_dtypes)
            /\ m_benches' = (IF Len(m_benches) = 0 THEN <<"all">> ELSE m_benches)
            /\ m_versions' = (IF Len(m_versions) = 0 THEN <<"main">> ELSE m_versions)
       /\ drv_pc' /= "command_run" =>
            /\ Len(m_versions') > 0 /\ Len(m_dtypes') > 0 /\ Len(m_benches') > 0
            /\ vi' \in 1..Len(m_versions') /\ di' \in 1..Len(m_dtypes')
       /\ drv_pc /= "command_run" =>
            UNCHANGED <<m_versions, m_dtypes, m_benches>>]_vars

\* a run whose three lists were all empty has reached its first cargo call
\* (the pools keep "all", "main" and "f32" out of the first place, so these
\* singletons can only be the defaults)
C14_Witness ==
    /\ cargo_calls /= <<>>
    /\ m_benches = <<"all">> /\ m_versions = <<"main">> /\ m_dtypes = <<"f32">>
    /\ cargo_calls[1].version = "main" /\ cargo_calls[1].dtype = "f32"

\* the call the last step made
LastCall == au_calls[Len(au_calls)]

\* C15: with GITHUB_BOT_TOKEN set, get_tokens_with_verifier returns its value
\* as access_token with no refresh token, whatever the cache file holds, calls
\* neither the verifier nor refresh_tokens nor auth (nor reads the cache), and
\* leaves the cache file as it was.
C15_BotTokenFirst ==
    [][(/\ au_env /= Nothing
        /\ Len(au_calls') = Len(au_calls) + 1
        /\ au_calls'[Len(au_calls')].op = "get_tokens_with_verifier") =>
            /\ au_result' = <<[access_token |-> au_env[1], refresh_token |-> <<>>]>>
            /\ au_calls'[Len(au_calls')].trace = <<"get_bot_token">>
            /\ au_file' = au_file /\ au_saved' = au_saved
            /\ au_pc' = "ready"]_vars

\* the bot token came back although the cache holds other, parsable tokens
C15_Witness ==
    /\ au_calls /= <<>> /\ LastCall.op = "get_tokens_with_verifier"
    /\ au_env = <<"github_pat_bot">>
    /\ au_file.exists /\ TokensFromJson(au_file.text) = <<Tokens("ghu_old", <<"ghr_old">>)>>
    /\ au_result = <<Tokens("github_pat_bot", <<>>)>>

\* the texts of CacheFiles that do not hold a Tokens object
UnparsableTexts ==
    {"", "token",
     "{\n  \"access_token\": \"ghu_old\",\n  \"refresh_to",
     "{\"refresh_token\": \"ghr_old\"}",
     "{\"access_token\": null, \"refresh_token\": \"ghr_old\"}",
     "{\"access_token\": \"a\", \"access_token\": \"b\"}",
     "{\"access_token\": \"ghu_old\"} x"}

\* C16: after any sequence of save_tokens calls get_tokens_from_cache returns
\* exactly the tokens of the most recent save, access and refresh token both;
\* it returns None when the cache file is missing, empty or unparsable.
C16_LastWriteWins ==
    (au_calls /= <<>> /\ LastCall.op = "get_tokens_from_cache") =>
        /\ au_saved /= <<>> =>
              /\ au_result /= <<>>
              /\ au_result[1].access_token = au_saved[Len(au_saved)].access_token
              /\ au_result[1].refresh_token = au_saved[Len(au_saved)].refresh_token
        /\ (~ au_file.exists \/ au_file.text \in UnparsableTexts) => au_result = <<>>

\* two saves of different tokens, then a read that returns the second
C16_Witness ==
    /\ Len(au_calls) = 3 /\ LastCall.op = "get_tokens_from_cache"
    /\ Len(au_saved) = 2 /\ au_saved[1] /= au_saved[2]
    /\ au_saved[2].access_token = "ghu_\"q\"\\"
    /\ au_result = <<au_saved[2]>>

\* the inputs file parses, its pr_number is an integer (of an i64) and the
\* secret is set
Deliverable ==
    /\ wh_inputs_file /= <<>> /\ wh_inputs_file[1].state = "json"
    /\ wh_inputs_file[1].json.kind = "object"
    /\ \E i \in 1..Len(wh_inputs_file[1].json.fields) :
         /\ wh_inputs_file[1].json.fields[i].key = "pr_number"
         /\ wh_inputs_file[1].json.fields[i].value.kind \in {"PosInt", "NegInt"}
    /\ wh_secret /= <<>>

\* the messages that report a failed delivery
FailureMessages ==
    {"Cannot open inputs file", "Error reading JSON",
     "No valid 'pr_number' found. Skipping webhook.",
     "Missing WEBHOOK_PAYLOAD_SECRET", "Error sending webhook",
     "Webhook failed with status"}

\* C17: send_started_event and send_output_results always return normally
\* (the run is never aborted by a webhook), a delivery that does not succeed
\* prints exactly one message, and a request is sent only when the inputs file
\* parses, pr_number is an integer and the secret is set.
C17_BestEffort ==
    /\ wh_pc /= "panicked"
    /\ wh_requests /= <<>> => Deliverable
    /\ wh_pc = "done" /\ wh_inputs_file /= <<>> =>
         /\ wh_returned[Len(wh_returned)] = "send_output_results"
         /\ Len(wh_log) = Len(wh_returned)
         /\ \A i \in 1..Len(wh_log) :
              wh_log[i] = "Sent webhook to server" \/ wh_log[i] \in FailureMessages
         /\ Len(wh_requests) <= Len(wh_returned)

\* both webhooks were attempted and failed on the way (a transport error, then
\* a non-success status), both returned and the run reached its end
C17_Witness ==
    /\ wh_pc = "done"
    /\ wh_returned = <<"send_started_event", "send_output_results">>
    /\ Len(wh_requests) = 2
    /\ wh_requests[1].action = "started" /\ wh_requests[2].action = "complete"
    /\ wh_log = <<"Error sending webhook", "Webhook failed with status">>


\* the new-name aliases (the left-hand sides of LegacyRenames) a text holds
AliasPatternsIn(text) ==
    {k \in 1..Len(LegacyRenames) : Contains(text, LegacyRenames[k][1])}

\* the releases the target of a rewrite may be: the release itself, or, for a
\* checkout or a git reference, whatever release the tree it names holds
TargetVersions(dep) == IF dep.kind = "Crate" THEN {dep.version} ELSE FlagVersions

Boundary == VersionNew("0", "17", "0")

\* C19 as stated: every kind of rewrite (Local, Released, GitRef) applies the
\* feature-flag translation for its target version: before the boundary no
\* new-name alias is left in the crate manifest, from the boundary on they
\* are all kept.
C19_AsStated ==
    p_pc = "patched" =>
        \A t \in TargetVersions(DependencyNew(p_version)) :
            IF VersionLessThanRelease(t, Boundary)
            THEN AliasPatternsIn(post_patch.benches) = {}
            ELSE AliasPatternsIn(post_patch.benches) = AliasPatternsIn(pre_patch.benches)

\* C19 amended: every kind of rewrite replaces the dependency tables, but only
\* the Released rewrite applies the feature-flag translation (for its own
\* version); the Local and GitRef rewrites leave the aliases and the bincode
\* pin of the crate manifest as they were, whatever tree they point to.
C19_OnlyReleasedTranslates ==
    p_pc = "patched" =>
        LET dep == DependencyNew(p_version)
        IN  /\ post_patch /= pre_patch
            /\ IF dep.kind = "Crate" /\ VersionLessThanRelease(dep.version, Boundary)
               THEN AliasPatternsIn(post_patch.benches) = {}
               ELSE /\ AliasPatternsIn(post_patch.benches)
                        = AliasPatternsIn(pre_patch.benches)
                    /\ Contains(post_patch.benches, BincodePin)
                        = Contains(pre_patch.benches, BincodePin)

\* a git reference rewrote the tables of a crate manifest and its new-name
\* aliases are still there
C19_Witness ==
    /\ p_pc = "patched"
    /\ DependencyNew(p_version).kind = "Git"
    /\ post_patch.benches /= pre_patch.benches
    /\ Contains(post_patch.benches, "burn = { git = ")
    /\ AliasPatternsIn(post_patch.benches) /= {}

\* every new-name alias of the text before is gone and its old name is there
RenamedFrom(before, after) ==
    /\ AliasPatternsIn(after) = {}
    /\ \A k \in AliasPatternsIn(before) : Contains(after, LegacyRenames[k][2])

\* the pin sits right under the [dependencies] header
PinnedUnderDependencies(text) == Contains(text, "[dependencies]\n" \o BincodePin)

GroupOf(row) == <<row.name, row.shapes>>

\* C21: a separator row stands exactly where the (name, shapes) group changes
\* between consecutive sorted records: g groups give g-1 separators, none
\* before the first record, none after the last, empty names included.
C21_Separators ==
    rp_pc = "rendered" =>
        LET succ == RowsOfKind(rp_rows, "success")
            seps == RowsOfKind(rp_rows, "separator")
            groups == {GroupOf(rp_rows[i]) : i \in succ}
        IN  /\ \A i \in seps :
                  /\ i - 1 \in succ /\ i + 1 \in succ
                  /\ GroupOf(rp_rows[i - 1]) /= GroupOf(rp_rows[i + 1])
            /\ \A i \in succ :
                  i + 1 \in succ => GroupOf(rp_rows[i]) = GroupOf(rp_rows[i + 1])
            /\ succ /= {} => Cardinality(seps) = Cardinality(groups) - 1
\* C22: when the orchestrator is killed while a guard is outstanding the
\* manifest stays patched and no guard is left to repair it; the next run's
\* patch captures the patched text as its original, so after that run's
\* restore the manifest still differs from the text before the killed run.
C22_KillLeavesPatched ==
    /\ p_pc = "killed" =>
          manifest = post_patch /\ manifest /= pre_patch /\ guards = <<>>
    /\ p_pc = "repatched" =>
          LET guard == guards[Len(guards)]
          IN  /\ guard.benches.some =>
                    guard.benches.original_content = post_patch.benches
              /\ guard.workspace.some =>
                    guard.workspace.original_content = post_patch.workspace
              /\ guard.benches.some \/ guard.workspace.some
    /\ p_pc \in {"rerestored", "refailed"} => manifest /= pre_patch
    /\ p_pc = "rerestored" => manifest = post_patch

C22_Witness ==
    /\ p_pc = "rerestored"
    /\ written /= {}
    /\ manifest = post_patch
    /\ \E f \in written : manifest[f] /= pre_patch[f]

\* C23: in xtask's run_bench both reader threads have ended (both streams
\* are drained) when the child's exit status is taken, and on every path on
\* which run_bench returns both threads have been joined.
C23_DrainedBeforeStatus ==
    /\ sup_result \in {"success", "failure"} =>
          \A s \in Streams : readers[s] \in {"done", "panicked"}
    /\ sup_pc = "returned" =>
          \A s \in Streams : readers[s] \in {"done", "panicked"}

\* C24: every manifest file patch writes has its text from before the call
\* captured in the guard patch returns, and when patch returns Err (a
\* manifest that cannot be read, or a write that fails, also after another
\* file was written) every manifest file holds the text it held before.
C24_GuardBeforeWrite ==
    /\ p_pc = "patched" =>
          \A f \in written :
              /\ guards[Len(guards)][f].some
              /\ guards[Len(guards)][f].cargo_file_path = f
              /\ guards[Len(guards)][f].original_content = pre_patch[f]
    /\ p_pc = "patched" =>
          \A f \in {"benches", "workspace"} \ written : manifest[f] = pre_patch[f]
    /\ p_pc = "failed" => manifest = pre_patch

C24_Witness ==
    /\ p_pc = "failed"
    /\ written = {"benches", "workspace"}
    /\ post_patch = pre_patch
    /\ manifest = pre_patch

\* C25: the state NiceProcessor shows after a line depends on that line
\* alone, "Compiling" taking precedence over "Running" and "Running" over
\* "Sharing"; a line without a marker sets the message to the Default format
\* whatever the state shown before, and leaves the spinner as it was.
C25_PerLineState ==
    [][np_count' = np_count + 1 =>
          LET compiling == Contains(np_line', "Compiling")
              running == Contains(np_line', "Running")
              sharing == Contains(np_line', "Sharing")
          IN  /\ compiling => np_state' = "Compiling"
              /\ ~ compiling /\ running => np_state' = "Running"
              /\ ~ compiling /\ ~ running /\ sharing => np_state' = "Uploading"
              /\ ~ compiling /\ ~ running /\ ~ sharing =>
                    /\ np_state' = "Default"
                    /\ np_message' = [icon |-> "hammer", bench |-> np_bench,
                                      backend |-> np_backend]
                    /\ np_spinner' = np_spinner]_vars

C25_Witness ==
    /\ np_count = 3
    /\ np_line = "matmul 1.2ms"
    /\ np_state = "Default"
    /\ np_message.icon = "hammer"
    /\ np_spinner

\* C26: in every run_command, finish is called once, after every
\* process_line and progress call of both reader threads; over a matrix run
\* that is not verbose the shared bar is advanced by one once per cell,
\* total_count times in all, the succeeded_inc and failed_inc calls add up to
\* total_count, and failed_inc is called once per FailedBenchmark.
C26_BarAccounting ==
    /\ finish_calls <= 1
    /\ finish_calls = 1 =>
          /\ \A s \in Streams :
                readers[s] = "done" /\ lines_forwarded[s] = lines_written[s]
          /\ progress_calls = lines_forwarded["stdout"] + lines_forwarded["stderr"]
    /\ sup_pc = "returned" => finish_calls = 1
    /\ drv_pc \in {"cell", "report", "done"} =>
          /\ pb_total = TotalCount
          /\ pb_pos = Len(outcomes) + finish_calls + (IF rc_pc \in {"exited", "returned"} THEN 1 ELSE 0)
          /\ succeeded_inc + failed_inc = Len(outcomes)
          /\ failed_inc = Len(failed_benchmarks)
    /\ drv_pc \in {"report", "done"} =>
          /\ pb_pos = TotalCount
          /\ succeeded_inc + failed_inc = TotalCount
          /\ failed_inc = Len(failed_benchmarks)

\* a finished run of four cells, two of them failed
C26_Witness ==
    /\ drv_pc = "done"
    /\ pb_total = 4 /\ pb_pos = 4
    /\ succeeded_inc = 2 /\ failed_inc = 2
    /\ Len(failed_benchmarks) = 2

\* the mutex is held exactly by a thread inside process_line, and with the
\* mutex free the spinner and the message belong together: the fire glyph
\* with a stopped spinner, the disk glyph with a started one
C27_Safe ==
    /\ pb_mutex /= "free" => readers[pb_mutex] \in {"locked", "spun"}
    /\ \A s \in Streams : readers[s] \in {"locked", "spun"} => pb_mutex = s
    /\ pb_mutex = "free" =>
          /\ np_message.icon = "fire" => ~ np_spinner
          /\ np_message.icon = "disk" => np_spinner

\* C27: the two reader threads neither deadlock nor tear the state of the
\* progress bar: process_line makes its spinner call and its message update
\* under one hold of the mutex, no thread holds the mutex while it waits for
\* a line of its pipe, and once the child has closed both streams and
\* exited, run_command comes to its end.
C27_NoDeadlock ==
    /\ []C27_Safe
    /\ (child_status \in {"success", "failure"}) ~> (sup_pc \in {"returned", "panicked"})

\* both threads are inside process_line business at once: one holds the
\* mutex, the other waits for it with its line read
C27_Witness ==
    /\ pb_mutex = "stderr" /\ readers["stderr"] = "spun"
    /\ readers["stdout"] = "got_line"
    /\ child_status = "success"
    /\ np_message.icon = "fire" /\ np_spinner

\* the functions the call just made went through
Called(name) == \E i \in 1..Len(au_calls'[Len(au_calls')].trace) :
                    au_calls'[Len(au_calls')].trace[i] = name

\* the step is a call of get_tokens_with_verifier with GITHUB_BOT_TOKEN unset
\* that found tokens in the cache
CachedCall ==
    /\ au_env = Nothing
    /\ Len(au_calls') = Len(au_calls) + 1
    /\ au_calls'[Len(au_calls')].op = "get_tokens_with_verifier"
    /\ Called("verifier")

\* the tokens a refresh or the device flow issues
NewlyIssued ==
    {r.tokens : r \in {o \in RefreshOutcomes : o.kind = "tokens"}} \cup {PolledTokens}

\* C28 as stated: with GITHUB_BOT_TOKEN unset, cached tokens the verifier
\* accepts are returned as they are, and cached tokens it rejects are never
\* returned: what comes back then is newly issued, by a refresh (and saved
\* to the cache) or by the auth flow when the refresh fails.
C28_AsStated ==
    [][CachedCall =>
          /\ ~ Called("refresh_tokens") =>
                au_result' = TokensFromJson(au_file.text) /\ au_file' = au_file
          /\ Called("refresh_tokens") /\ au_result' /= Nothing =>
                /\ au_result'[1] \in NewlyIssued
                /\ au_saved' = Append(au_saved, au_result'[1])
                /\ Called("auth") => au_result'[1] = PolledTokens]_vars

\* C28 amended: rejected cached tokens that carry a refresh token are never
\* returned, what comes back is newly issued and saved; rejected cached
\* tokens without a refresh token come back as they are, saved once more.
C28_RejectedTokens ==
    [][CachedCall =>
          LET cached == TokensFromJson(au_file.text)
          IN  /\ ~ Called("refresh_tokens") =>
                    au_result' = cached /\ au_file' = au_file
              /\ Called("refresh_tokens") /\ au_result' /= Nothing =>
                    /\ au_saved' = Append(au_saved, au_result'[1])
                    /\ TokensFromJson(au_file'.text) = au_result'
                    /\ IF cached[1].refresh_token = Nothing
                       THEN au_result' = cached /\ ~ Called("auth")
                       ELSE /\ au_result'[1] \in NewlyIssued
                            /\ Called("auth") => au_result'[1] = PolledTokens]_vars

\* rejected tokens were refreshed: the new ones are returned and cached
C28_Witness ==
    /\ au_env = Nothing
    /\ Len(au_calls) = 1
    /\ LastCall.op = "get_tokens_with_verifier"
    /\ LastCall.trace = <<"get_bot_token", "get_tokens_from_cache", "verifier",
                          "refresh_tokens", "save_tokens">>
    /\ au_result = <<Tokens("ghu_new", <<"ghr_new">>)>>
    /\ TokensFromJson(au_file.text) = au_result

\* C29: once every cell has been executed the table of the report is
\* printed whatever the share-link lookup comes to (no token, a failing user
\* name lookup, a token whose prefix has no scheme, a link): the run does
\* not end before the table is printed, and without a link the table is
\* printed alone.
C29_TableAlwaysPrinted ==
    /\ sh_pc \in {"done", "panicked"} =>
          /\ Len(sh_printed) = 1
          /\ StartsWith(sh_printed[1], sh_table)
          /\ sh_link = Nothing => sh_printed[1] = sh_table
    /\ sh_pc /= "panicked"

\* C30: whenever BurnBenchCompareArgs::parse returns, with Ok or with the
\* Err of the backup, of an update, of a benchmark or of a restore, the
\* Cargo.toml of the crate holds the text it held when parse was called;
\* every update is applied to that text, never to what an earlier version
\* left; and a version that fails ends the comparison.
C30_ManifestRestored ==
    /\ cm_pc = "returned" => cm_source = cm_original
    /\ \A k \in 1..Len(cm_read) : cm_read[k] = cm_original
    /\ cm_failed /= "none" =>
          Len(cm_read) <= cm_i /\ Len(cm_ran) <= cm_i /\ cm_result /= "Ok"

====
